---------------------------- MODULE Spec2Model ----------------------------
(***************************************************************************)
(* Model of the financial-data derivation pipeline of the stock dashboard: *)
(*   - calculateCAGR            (client/src/components/ChartDetailDialog)  *)
(*   - processFinancialData     (server/firebase-service.ts)               *)
(*   - the /api/valuation alignment (server routes)                        *)
(*                                                                         *)
(* Numbers.  The program computes in IEEE doubles.  The model computes in  *)
(* exact rationals [n, d] (d > 0, reduced); a root Math.pow(x, 1/years)    *)
(* with years > 1 is kept symbolically, and a value JavaScript would make  *)
(* NaN is the value NaN.  Rounding is not modelled.                        *)
(***************************************************************************)
EXTENDS Integers, Sequences, FiniteSets, TLC

VARIABLES
    data,             \* ChartDetailDialog: the `data` prop, a sequence of point values
    isQuarterlyData,  \* ChartDetailDialog: whether the labels of `data` are quarters
    cagr,             \* the last calculateCAGR call: NoCall or [years, value]
    yearData,         \* Firebase node year/<symbol>: raw annual records (<<>>: no node)
    quarterData,      \* Firebase node quarter/<symbol>: raw quarterly records
    pc,               \* "load": the nodes are being written; "served": getFinancialData returned
    financialData,    \* what getFinancialData returned (NullData: null)
    valuation,        \* GET /api/valuation: its locals and its response
    dividendsData,    \* Firebase node dividends/<symbol>: raw dividend events
    clock,            \* Date.now() in minutes, and the number of times it has advanced
    store,            \* Cache.store: key -> NoEntry or [data, expiry]
    response,         \* the last HTTP response of the server
    comparisonStocks, \* useStockData: the comparison list (React state)
    fetches,          \* addComparisonStock calls waiting at their await
    projection,       \* ProjectionCalculator: its inputs and projectionData
    policy,           \* the sign-transition policy of both branches on one pair
    symbol,           \* useStockData: the primary symbol (React state)
    pending,          \* server: the requests suspended at an await, and the runs of processFinancialData
    ttmData,          \* useStockData: the ttm series the financialData memo adds
    chart             \* ValuationMetricsChart: valuationData and its fetches in flight

cagrVars == <<data, isQuarterlyData, cagr>>
dbVars == <<yearData, quarterData, dividendsData>>
dataVars == <<yearData, quarterData, pc, financialData, valuation, dividendsData>>
cacheVars == <<clock, store, response>>
compareVars == <<comparisonStocks, fetches>>
clientVars == <<symbol, pending, ttmData, chart>>
restVars == <<cacheVars, compareVars, projection, policy, clientVars>>

vars == <<data, isQuarterlyData, cagr, yearData, quarterData, pc, financialData, valuation,
          dividendsData, clock, store, response, comparisonStocks, fetches, projection,
          policy, symbol, pending, ttmData, chart>>

-----------------------------------------------------------------------------
(* Bounds of the model *)

MaxYears == 6            \* longest annual series shown in the dialog
MaxQuarters == 8         \* longest quarterly series shown in the dialog
MaxYearRecords == 2      \* annual records under year/<symbol>
MaxQuarterRecords == 3   \* quarterly records under quarter/<symbol>
MaxPayoutQuarters == 5   \* consecutive quarters of the payout-ratio runs
MaxOddQuarters == 2      \* quarterly records of any encoding in the valuation runs
MaxValQuarters == 5      \* chronological quarterly records in the valuation runs
NumValQuarters == MaxValQuarters + 1   \* the quarters Q1 2020 .. they may lie in
MaxPrices == 2           \* monthly prices in one Yahoo response

AnnualValues == {-100, -40, 0, 50}
QuarterValues == {-1, 0, 1}
CagrYears == {1, 3, 5, 10}

NoCall == [years |-> 0]

-----------------------------------------------------------------------------
(* Exact arithmetic *)

Abs(x) == IF x < 0 THEN -x ELSE x

RECURSIVE GCD(_, _)
GCD(a, b) == IF b = 0 THEN a ELSE GCD(b, a % b)

\* the rational n/d (d # 0), reduced, with a positive denominator
Rat(n, d) ==
    LET g == GCD(Abs(n), Abs(d))
        s == IF d < 0 THEN -1 ELSE 1
    IN  [k |-> "rat", n |-> s * (n \div g), d |-> s * (d \div g)]

NaN == [k |-> "nan"]
Zero == Rat(0, 1)

\* Math.pow(n/d, 1 / years) - 1
PowMinus1(n, d, years) ==
    LET x == Rat(n, d)
    IN  IF years = 1 THEN Rat(x.n - x.d, x.d)
        ELSE IF x.n < 0 THEN NaN
        ELSE IF x.n = 0 THEN Rat(-1, 1)
        ELSE IF x.n = x.d THEN Zero
        ELSE [k |-> "root", s |-> 1, n |-> x.n, d |-> x.d, y |-> years]

\* unary minus
Negate(v) ==
    CASE v.k = "rat" -> Rat(-v.n, v.d)
      [] v.k = "root" -> [v EXCEPT !.s = -v.s]
      [] OTHER -> v

IsFinite(v) == v.k # "nan"

\* v > 0 and v <= 0, for a finite v
IsPositive(v) ==
    CASE v.k = "rat" -> v.n > 0
      [] v.k = "root" -> (v.s = 1 /\ v.n > v.d) \/ (v.s = -1 /\ v.n < v.d)
      [] OTHER -> FALSE

IsNonPositive(v) == IsFinite(v) /\ ~IsPositive(v)

RECURSIVE SumRange(_, _, _)
\* s[lo] + ... + s[hi] over the positions that exist
SumRange(s, lo, hi) ==
    IF lo > hi THEN 0
    ELSE (IF lo >= 1 /\ lo <= Len(s) THEN s[lo] ELSE 0) + SumRange(s, lo + 1, hi)

-----------------------------------------------------------------------------
(* calculateCAGR *)

\* faulty variant: both-negative case without the sign of the worsening branch
QuarterlyPolicyUnsigned(startTTM, endTTM, years) ==
    IF startTTM < 0 /\ endTTM > 0
    THEN Rat(endTTM - startTTM, Abs(startTTM) * years)
    ELSE IF startTTM = 0 THEN Zero
    ELSE IF startTTM < 0 /\ endTTM < 0
    THEN PowMinus1(Abs(startTTM) + Abs(Abs(endTTM) - Abs(startTTM)), Abs(startTTM), years)
    ELSE PowMinus1(endTTM, startTTM, years)

\* the quarterly branch after the two TTM sums are known
QuarterlyPolicy(startTTM, endTTM, years) ==
    IF startTTM < 0 /\ endTTM > 0
    THEN Rat(endTTM - startTTM, Abs(startTTM) * years)
    ELSE IF startTTM = 0 THEN Zero
    ELSE IF startTTM < 0 /\ endTTM < 0
    THEN IF Abs(endTTM) < Abs(startTTM)
         THEN PowMinus1(Abs(startTTM) + (Abs(startTTM) - Abs(endTTM)), Abs(startTTM), years)
         ELSE Negate(PowMinus1(Abs(startTTM) + (Abs(endTTM) - Abs(startTTM)), Abs(startTTM), years))
    ELSE PowMinus1(endTTM, startTTM, years)

\* faulty variant: the textbook formula (end / start)^(1 / years) - 1 on every input
AnnualPolicyNaive(startValue, endValue, years) ==
    IF startValue = 0 THEN Zero ELSE PowMinus1(endValue, startValue, years)

\* the annual branch after the two values are known
AnnualPolicy(startValue, endValue, years) ==
    IF startValue < 0 /\ endValue > 0
    THEN Rat(endValue - startValue, Abs(startValue) * years)
    ELSE IF startValue < 0 /\ endValue < 0
    THEN IF Abs(endValue) < Abs(startValue)
         THEN PowMinus1(Abs(startValue) + (Abs(startValue) - Abs(endValue)), Abs(startValue), years)
         ELSE Negate(PowMinus1(Abs(startValue) + (Abs(endValue) - Abs(startValue)), Abs(startValue), years))
    ELSE IF startValue = 0 THEN Zero
    ELSE PowMinus1(endValue, startValue, years)

\* faulty variant: the start window taken years * 4 quarters from the end,
\* without the 4 quarters of the end window
StartQtrIdxFromEnd(len, years) ==
    LET quartersNeeded == IF years = 1 THEN 4 ELSE years * 4
    IN  len - quartersNeeded

\* JavaScript index of the first quarter of the start window
StartQtrIdx(len, years) ==
    LET quartersNeeded == IF years = 1 THEN 4 ELSE years * 4
    IN  IF years = 1 THEN len - 8 ELSE len - 4 - quartersNeeded

\* sum of the 4 most recent quarters (JavaScript indices len-4 .. len-1)
EndTTM(d) == SumRange(d, Len(d) - 3, Len(d))

\* sum of the 4 quarters from startQtrIdx (JavaScript indices, so +1 in the model)
StartTTM(d, years) ==
    SumRange(d, StartQtrIdx(Len(d), years) + 1, StartQtrIdx(Len(d), years) + 4)

\* faulty variant: off by one, data[data.length - years]
AnnualStartValueOffByOne(d, years) == d[Len(d) - years + 1]

\* the point the annual branch starts from: data[data.length - 1 - years]
AnnualStartValue(d, years) == d[Len(d) - years]

calculateCAGR(d, years, isQuarterly) ==
    IF Len(d) < years + 1 THEN Zero
    ELSE IF isQuarterly
    THEN LET quartersNeeded == IF years = 1 THEN 4 ELSE years * 4
         IN  IF Len(d) < quartersNeeded + 4 THEN Zero
             ELSE QuarterlyPolicy(StartTTM(d, years), EndTTM(d), years)
    ELSE AnnualPolicy(AnnualStartValue(d, years), d[Len(d)], years)

-----------------------------------------------------------------------------
(* Dates.  An endDate as Firebase delivers it is one of                    *)
(*   [kind |-> "iso", y, m, d]   a date string such as "2020-03-31"        *)
(*   [kind |-> "text"]           a string that is no date, such as "N/A"   *)
(*   [kind |-> "ym", y, m]       an object {year, month}                   *)
(*   [kind |-> "fiscal", y, q]   an object {fiscalYear, fiscalQuarter}     *)
(*   [kind |-> "missing"]        the field is absent                       *)
(* (JSON holds no Date objects, so the getFullYear branch is not reached). *)
(* The server clock is taken to be UTC, where a date string denotes the    *)
(* same calendar day in getFullYear/getMonth as it spells.                 *)

IsoDate(y, m, d) == [kind |-> "iso", y |-> y, m |-> m, d |-> d]
TextDate == [kind |-> "text", y |-> 0, m |-> 0, d |-> 0]
YmDate(y, m) == [kind |-> "ym", y |-> y, m |-> m, d |-> 0]
FiscalDate(y, q) == [kind |-> "fiscal", y |-> y, m |-> q, d |-> 0]
MissingDate == [kind |-> "missing", y |-> 0, m |-> 0, d |-> 0]

\* a JavaScript Date: null, Invalid Date, or a calendar day
NullDate == [st |-> "null", y |-> 0, m |-> 0, d |-> 0]
InvalidDate == [st |-> "invalid", y |-> 0, m |-> 0, d |-> 0]
Day(y, m, d) == [st |-> "ok", y |-> y, m |-> m, d |-> d]

\* Date.getTime(), in days on a calendar of 31-day months (order-preserving)
DayNumber(y, m, d) == ((y * 12) + (m - 1)) * 31 + (d - 1)
NaNTime == [nan |-> TRUE, t |-> 0]
GetTime(date) ==
    IF date.st = "ok" THEN [nan |-> FALSE, t |-> DayNumber(date.y, date.m, date.d)]
    ELSE NaNTime

\* new Date(item.endDate)
NewDate(endDate) ==
    IF endDate.kind = "iso" THEN Day(endDate.y, endDate.m, endDate.d) ELSE InvalidDate

\* the date the quarterly code parses from item.endDate (its try block)
ParseEndDate(endDate) ==
    CASE endDate.kind \in {"iso", "text"} -> NewDate(endDate)
      [] endDate.kind = "ym" -> Day(endDate.y, endDate.m, 1)
      [] endDate.kind = "fiscal" -> Day(endDate.y, endDate.m * 3 - 2, 1)
      [] OTHER -> NullDate

\* period labels: "2020" / "NaN", and "Q1 2020" / "QNaN NaN"
YearLabel(date) ==
    IF date.st = "ok" THEN [nan |-> FALSE, q |-> 0, y |-> date.y]
    ELSE [nan |-> TRUE, q |-> 0, y |-> 0]
QuarterLabel(date) ==
    IF date.st = "ok" THEN [nan |-> FALSE, q |-> (date.m + 2) \div 3, y |-> date.y]
    ELSE [nan |-> TRUE, q |-> 0, y |-> 0]

-----------------------------------------------------------------------------
(* Array.prototype.sort with a comparator (a, b) => key(a) - key(b), such  *)
(* as new Date(a.endDate).getTime() - new Date(b.endDate).getTime().       *)
(* A NaN difference counts as 0.  The sort is stable; when the comparator  *)
(* is not consistent (ECMAScript: a = b and b = c but a # c) the order is  *)
(* implementation-defined: any permutation.                                *)

\* the sign of ta - tb for two getTime() values; a NaN difference counts as 0
Compare(ta, tb) ==
    IF ta.nan \/ tb.nan THEN 0
    ELSE IF ta.t < tb.t THEN -1
    ELSE IF ta.t > tb.t THEN 1 ELSE 0

\* the array with each item's sort key beside it
Keyed(arr, keys) == [i \in 1..Len(arr) |-> [key |-> keys[i], item |-> arr[i]]]
Items(keyed) == [i \in 1..Len(keyed) |-> keyed[i].item]

ConsistentComparator(keyed) ==
    \A i, j, k \in 1..Len(keyed) :
        (Compare(keyed[i].key, keyed[j].key) = 0 /\ Compare(keyed[j].key, keyed[k].key) = 0)
            => Compare(keyed[i].key, keyed[k].key) = 0

RECURSIVE InsertStable(_, _)
\* x put behind every element of the sorted sequence that does not follow it
InsertStable(sorted, x) ==
    IF sorted = <<>> THEN <<x>>
    ELSE IF Compare(sorted[Len(sorted)].key, x.key) <= 0 THEN Append(sorted, x)
    ELSE Append(InsertStable(SubSeq(sorted, 1, Len(sorted) - 1), x), sorted[Len(sorted)])

RECURSIVE StableSort(_)
\* the one order a stable sort gives under a consistent comparator
StableSort(keyed) ==
    IF keyed = <<>> THEN <<>>
    ELSE InsertStable(StableSort(SubSeq(keyed, 1, Len(keyed) - 1)), keyed[Len(keyed)])

RECURSIVE AllOrders(_)
AllOrders(arr) ==
    IF arr = <<>> THEN {<<>>}
    ELSE UNION {{<<arr[i]>> \o rest :
                   rest \in AllOrders(SubSeq(arr, 1, i - 1) \o SubSeq(arr, i + 1, Len(arr)))} :
                i \in 1..Len(arr)}

\* what Array.prototype.sort may leave in the array
SortByKey(keyed) ==
    {Items(s) : s \in (IF ConsistentComparator(keyed) THEN {StableSort(keyed)}
                                                      ELSE AllOrders(keyed))}

\* [...dataArray].sort(by new Date(endDate).getTime())
SortOutcomes(arr) == SortByKey(Keyed(arr, [i \in 1..Len(arr) |-> GetTime(NewDate(arr[i].endDate))]))

-----------------------------------------------------------------------------
(* processFinancialData *)

Point(label, v) == [year |-> label, value |-> v]

\* Number(item.shortTermInvestments ...): cash of one record
CashValue(item) ==
    IF item.shortTermInvestments.none THEN item.cashAndShortTermInvestments
    ELSE item.cashAndShortTermInvestments + item.shortTermInvestments.v

GrossMargin(item) ==
    IF item.totalRevenue # 0 /\ item.costofGoodsAndServicesSold # 0
    THEN Rat((item.totalRevenue - item.costofGoodsAndServicesSold) * 100, item.totalRevenue)
    ELSE Zero

NetMargin(item) ==
    IF item.totalRevenue # 0 /\ item.netIncome # 0
    THEN Rat(item.netIncome * 100, item.totalRevenue)
    ELSE Zero

\* faulty variant: the shares series pushes for every position, also for those
\* the other series skip
\* (`kept`, label and sbcStep as below)
PushedSeriesSharesUnfiltered(sortedData, kept, label, sbcStep) ==
    LET S(Val(_)) == [j \in 1..Len(kept) |-> Point(label[kept[j]], Val(kept[j]))]
    IN  [revenue |-> S(LAMBDA i : sortedData[i].totalRevenue),
         netIncome |-> S(LAMBDA i : sortedData[i].netIncome),
         cash |-> S(LAMBDA i : CashValue(sortedData[i])),
         debt |-> S(LAMBDA i : sortedData[i].longTermDebt),
         shares |-> [i \in 1..Len(sortedData) |->
                       Point(label[i], sortedData[i].commonStockSharesOutstanding)],
         sbc |-> S(LAMBDA i : Rat(sortedData[i].commonStockSharesOutstanding
                                     * (30 + (i - 1) * sbcStep), 1000)),
         grossMargin |-> S(LAMBDA i : GrossMargin(sortedData[i])),
         netMargin |-> S(LAMBDA i : NetMargin(sortedData[i])),
         fcf |-> S(LAMBDA i : sortedData[i].operatingCashflow - sortedData[i].capitalExpenditures),
         capex |-> S(LAMBDA i : Abs(sortedData[i].capitalExpenditures)),
         operatingCashFlow |-> S(LAMBDA i : sortedData[i].operatingCashflow),
         payoutRatio |-> [j \in 1..Len(kept) |->
              [year |-> label[kept[j]], value |-> Zero,
               dividendPayout |-> sortedData[kept[j]].dividendPayout,
               netIncome |-> sortedData[kept[j]].netIncome]]]

\* the series one pass of the forEach pushes: `kept` are the positions of
\* sortedData that push, label[i] the label of position i, sbcStep the
\* per-index increase of the SBC percentage in thousandths
PushedSeries(sortedData, kept, label, sbcStep) ==
    LET S(Val(_)) == [j \in 1..Len(kept) |-> Point(label[kept[j]], Val(kept[j]))]
    IN  [revenue |-> S(LAMBDA i : sortedData[i].totalRevenue),
         netIncome |-> S(LAMBDA i : sortedData[i].netIncome),
         cash |-> S(LAMBDA i : CashValue(sortedData[i])),
         debt |-> S(LAMBDA i : sortedData[i].longTermDebt),
         shares |-> S(LAMBDA i : sortedData[i].commonStockSharesOutstanding),
         sbc |-> S(LAMBDA i : Rat(sortedData[i].commonStockSharesOutstanding
                                     * (30 + (i - 1) * sbcStep), 1000)),
         grossMargin |-> S(LAMBDA i : GrossMargin(sortedData[i])),
         netMargin |-> S(LAMBDA i : NetMargin(sortedData[i])),
         fcf |-> S(LAMBDA i : sortedData[i].operatingCashflow - sortedData[i].capitalExpenditures),
         capex |-> S(LAMBDA i : Abs(sortedData[i].capitalExpenditures)),
         operatingCashFlow |-> S(LAMBDA i : sortedData[i].operatingCashflow),
         payoutRatio |-> [j \in 1..Len(kept) |->
              [year |-> label[kept[j]], value |-> Zero,
               dividendPayout |-> sortedData[kept[j]].dividendPayout,
               netIncome |-> sortedData[kept[j]].netIncome]]]

RECURSIVE KeptFrom(_, _)
\* the positions i.. of a sequence of dates whose date is truthy, in order
KeptFrom(dates, i) ==
    IF i > Len(dates) THEN <<>>
    ELSE (IF dates[i].st # "null" THEN <<i>> ELSE <<>>) \o KeptFrom(dates, i + 1)

\* processAnnualData after its sort: every item pushes
processAnnualData(sortedData) ==
    PushedSeries(sortedData,
                 [i \in 1..Len(sortedData) |-> i],
                 [i \in 1..Len(sortedData) |-> YearLabel(NewDate(sortedData[i].endDate))],
                 5)

\* processQuarterlyData after its sort: the items with a date push
processQuarterlyData(sortedData) ==
    LET dates == [i \in 1..Len(sortedData) |-> ParseEndDate(sortedData[i].endDate)]
    IN  PushedSeries(sortedData,
                     KeptFrom(dates, 1),
                     [i \in 1..Len(sortedData) |-> QuarterLabel(dates[i])],
                     1)

\* annual payout ratio: per year, dividendPayout / netIncome * 100
AnnualPayoutRatio(arr) ==
    [i \in 1..Len(arr) |->
        [arr[i] EXCEPT !.value =
            IF arr[i].netIncome > 0
            THEN Rat(arr[i].dividendPayout * 100, arr[i].netIncome)
            ELSE Zero]]

RECURSIVE SumField(_, _, _, _)
\* the reduce over offsets 0..3: arr[index - offset].<field>, as a sum
SumField(arr, index, offset, dividends) ==
    IF offset > 3 THEN 0
    ELSE (IF dividends THEN arr[index - offset].dividendPayout
                       ELSE arr[index - offset].netIncome)
         + SumField(arr, index, offset + 1, dividends)

\* first model position that gets a rolling ratio: JavaScript index >= 3
FirstRollingPosition == 4

\* faulty variant: the per-period formula of the annual series used for quarters
QuarterlyPayoutRatioPerQuarter(arr) == AnnualPayoutRatio(arr)

\* quarterly payout ratio: rolling 4-quarter sums
QuarterlyPayoutRatio(arr) ==
    IF Len(arr) >= 4
    THEN [i \in 1..Len(arr) |->
            IF i >= FirstRollingPosition
            THEN [arr[i] EXCEPT !.value =
                    IF SumField(arr, i, 0, FALSE) > 0
                    THEN Rat(SumField(arr, i, 0, TRUE) * 100, SumField(arr, i, 0, FALSE))
                    ELSE Zero]
            ELSE arr[i]]
    ELSE arr

\* the string 'empty' in the Date field: the marker of "no dividends"
EmptyMarker == [kind |-> "empty", y |-> 0, m |-> 0, d |-> 0]

\* a dividend event {Date, Dividends}; an absent Dividends field reads as 0
DividendEvent(date, dividends) == [Date |-> date, Dividends |-> dividends]

\* [...dataArray].sort(by new Date(Date).getTime())
DividendSortOutcomes(arr) ==
    SortByKey(Keyed(arr, [i \in 1..Len(arr) |-> GetTime(NewDate(arr[i].Date))]))

\* if (item.Date && dividendValue): the Date is a non-empty string and the
\* Dividends are neither absent nor 0
PushesDividend(item) == item.Date.kind # "missing" /\ item.Dividends # 0

\* the point of one dividend event: its quarter label and its value
DividendPoint(item) == Point(QuarterLabel(NewDate(item.Date)), item.Dividends)

\* faulty variant: no test of the marker, of the Date or of the Dividends
processDividendsNoMarker(sortedData) ==
    [i \in 1..Len(sortedData) |-> DividendPoint(sortedData[i])]

\* processDividends after its sort (<<>>: the node is absent, not an array)
processDividends(sortedData) ==
    IF sortedData = <<>> THEN <<>>
    ELSE IF Len(sortedData) = 1 /\ sortedData[1].Date = EmptyMarker THEN <<>>
    ELSE LET pushing == SelectSeq(sortedData, PushesDividend)
         IN  [i \in 1..Len(pushing) |-> DividendPoint(pushing[i])]

NullData == [found |-> FALSE]

\* processFinancialData on the three sorted arrays (an absent node gives {})
processFinancialData(sortedYear, sortedQuarter, sortedDividends) ==
    LET annualData == processAnnualData(sortedYear)
        quarterlyData == processQuarterlyData(sortedQuarter)
        dividends == processDividends(sortedDividends)
    IN  [found |-> TRUE,
         annual |-> [annualData EXCEPT !.payoutRatio = AnnualPayoutRatio(@)],
         quarterly |-> [quarterlyData EXCEPT !.payoutRatio = QuarterlyPayoutRatio(@)],
         dividends |-> dividends]

-----------------------------------------------------------------------------
(* GET /api/valuation/:symbol: the alignment of prices with quarters *)

NullRatio == [k |-> "null"]
NoValuation ==
    [status |-> "none", historicalPrices |-> <<>>, monthlyPrices |-> <<>>,
     monthlyValuationData |-> <<>>, metrics |-> <<>>]

\* JavaScript < and <= on two Dates (false when either is invalid)
DateLess(a, b) ==
    a.st = "ok" /\ b.st = "ok" /\ DayNumber(a.y, a.m, a.d) < DayNumber(b.y, b.m, b.d)
DateLessEq(a, b) ==
    a.st = "ok" /\ b.st = "ok" /\ DayNumber(a.y, a.m, a.d) <= DayNumber(b.y, b.m, b.d)

\* new Date(0)
Epoch == Day(1970, 1, 1)

\* the 15th of the last month of the quarter a label names
quarterToDate(label) ==
    IF label.nan THEN InvalidDate ELSE Day(label.y, label.q * 3, 15)

\* `Q${Math.floor(month / 3) + 1} ${year}` of a price date
PriceQuarterLabel(priceDate) ==
    [nan |-> FALSE, q |-> ((priceDate.m - 1) \div 3) + 1, y |-> priceDate.y]

RECURSIVE ExactMatch(_, _, _)
\* quarterData.find(q => q.quarter === label): its index, or -1
ExactMatch(labels, label, i) ==
    IF i > Len(labels) THEN -1
    ELSE IF labels[i] = label THEN i - 1
    ELSE ExactMatch(labels, label, i + 1)

RECURSIVE LatestQuarterOverall(_, _, _, _, _)
\* faulty variant: the loop without its test quarterDate <= priceDate
LatestQuarterOverall(labels, priceDate, i, latestQuarterIndex, latestQuarterDate) ==
    IF i > Len(labels) THEN latestQuarterIndex
    ELSE LET quarterDate == quarterToDate(labels[i])
         IN  IF DateLess(latestQuarterDate, quarterDate)
             THEN LatestQuarterOverall(labels, priceDate, i + 1, i - 1, quarterDate)
             ELSE LatestQuarterOverall(labels, priceDate, i + 1,
                                       latestQuarterIndex, latestQuarterDate)

RECURSIVE LatestQuarterBefore(_, _, _, _, _)
\* the for-loop over quarterData from position i on
LatestQuarterBefore(labels, priceDate, i, latestQuarterIndex, latestQuarterDate) ==
    IF i > Len(labels) THEN latestQuarterIndex
    ELSE LET quarterDate == quarterToDate(labels[i])
         IN  IF DateLessEq(quarterDate, priceDate) /\ DateLess(latestQuarterDate, quarterDate)
             THEN LatestQuarterBefore(labels, priceDate, i + 1, i - 1, quarterDate)
             ELSE LatestQuarterBefore(labels, priceDate, i + 1,
                                      latestQuarterIndex, latestQuarterDate)

\* faulty variant: no floor at quarter 0 when no quarter precedes the price date
findClosestQuarterNoFloor(labels, priceDate) ==
    IF Len(labels) = 0 THEN -1
    ELSE LET exactMatch == ExactMatch(labels, PriceQuarterLabel(priceDate), 1)
         IN  IF exactMatch >= 0 THEN exactMatch
             ELSE LatestQuarterBefore(labels, priceDate, 1, -1, Epoch)

\* findClosestQuarter: a JavaScript index into the quarterly series, or -1
findClosestQuarter(labels, priceDate) ==
    IF Len(labels) = 0 THEN -1
    ELSE LET exactMatch == ExactMatch(labels, PriceQuarterLabel(priceDate), 1)
         IN  IF exactMatch >= 0 THEN exactMatch
             ELSE IF DateLess(priceDate, quarterToDate(labels[1])) THEN 0
             ELSE LET latestQuarterIndex ==
                          LatestQuarterBefore(labels, priceDate, 1, -1, Epoch)
                  IN  IF latestQuarterIndex = -1 THEN 0 ELSE latestQuarterIndex

\* historicalPrices.sort(by date)
SortedPrices(prices) ==
    CHOOSE s \in SortByKey(Keyed(prices, [i \in 1..Len(prices) |-> GetTime(prices[i].date)])) : TRUE

\* the forEach that fills monthlyPrices
MonthlyPrices(labels, sortedPrices) ==
    SelectSeq([i \in 1..Len(sortedPrices) |->
                  [date |-> sortedPrices[i].date,
                   close |-> sortedPrices[i].close,
                   quarterIndex |-> findClosestQuarter(labels, sortedPrices[i].date),
                   monthLabel |-> [y |-> sortedPrices[i].date.y, m |-> sortedPrices[i].date.m]]],
              LAMBDA e : e.quarterIndex >= 0)

RECURSIVE MapSet(_, _)
\* Map.set(key, value): a new key goes last, a known key keeps its place
MapSet(entries, e) ==
    IF entries = <<>> THEN <<e>>
    ELSE IF entries[1].monthLabel = e.monthLabel THEN <<e>> \o Tail(entries)
    ELSE <<entries[1]>> \o MapSet(Tail(entries), e)

RECURSIVE MonthlyValuationData(_, _, _)
\* the forEach that fills the Map monthLabel -> {idx, price, date}
MonthlyValuationData(monthlyPrices, i, revenueLength) ==
    IF i = 0 THEN <<>>
    ELSE LET before == MonthlyValuationData(monthlyPrices, i - 1, revenueLength)
             idx == monthlyPrices[i].quarterIndex
         IN  IF idx >= revenueLength \/ idx < 0 THEN before
             ELSE MapSet(before, [monthLabel |-> monthlyPrices[i].monthLabel,
                                  idx |-> idx,
                                  price |-> monthlyPrices[i].close,
                                  date |-> monthlyPrices[i].date])

RECURSIVE Trailing(_, _, _)
\* sum of series[idx - j].value over j in from..3 with idx - j >= 0
Trailing(series, idx, j) ==
    IF j > 3 THEN 0
    ELSE (IF idx - j >= 0 THEN series[idx - j + 1].value ELSE 0) + Trailing(series, idx, j + 1)

RECURSIVE QuartersIncluded(_, _)
\* the number of j in from..3 with idx - j >= 0
QuartersIncluded(idx, j) ==
    IF j > 3 THEN 0
    ELSE (IF idx - j >= 0 THEN 1 ELSE 0) + QuartersIncluded(idx, j + 1)

\* trailing > 0 ? price / (trailing / sharesOutstanding) : null
\* (a division by 0 shares is Infinity, and price / Infinity is 0)
Ratio(price, trailing, sharesOutstanding) ==
    IF trailing > 0
    THEN IF sharesOutstanding = 0 THEN Zero ELSE Rat(price * sharesOutstanding, trailing)
    ELSE NullRatio

\* faulty variant: ratios from whatever quarters the window holds
FullWindowAny(quartersIncluded) == quartersIncluded > 0

\* if (quartersIncluded === 4)
FullWindow(quartersIncluded) == quartersIncluded = 4

\* one element of valuationMetrics
ValuationPoint(quarterly, e) ==
    LET full == FullWindow(QuartersIncluded(e.idx, 0))
        sharesOutstanding == quarterly.shares[e.idx + 1].value
        R(series) == IF full THEN Ratio(e.price, Trailing(series, e.idx, 0), sharesOutstanding)
                     ELSE NullRatio
    IN  [date |-> e.monthLabel,
         price |-> e.price,
         pe |-> R(quarterly.netIncome),
         ps |-> R(quarterly.revenue),
         pfcf |-> R(quarterly.fcf),
         pocf |-> R(quarterly.operatingCashFlow)]

\* faulty variant: the comparator with its operands exchanged
SortedMetricsDescending(metrics) ==
    CHOOSE s \in SortByKey(Keyed(metrics,
                 [i \in 1..Len(metrics) |->
                     [nan |-> FALSE, t |-> 0 - (metrics[i].date.y * 12 + metrics[i].date.m)]])) : TRUE

\* valuationMetrics.sort(by year, then by month)
SortedMetrics(metrics) ==
    CHOOSE s \in SortByKey(Keyed(metrics,
                 [i \in 1..Len(metrics) |->
                     [nan |-> FALSE, t |-> metrics[i].date.y * 12 + metrics[i].date.m]])) : TRUE

\* the handler from the price fetch to the response
Valuation(fd, prices) ==
    LET labels == [i \in 1..Len(fd.quarterly.revenue) |-> fd.quarterly.revenue[i].year]
        sorted == SortedPrices(prices)
        monthlyPrices == MonthlyPrices(labels, sorted)
        map == MonthlyValuationData(monthlyPrices, Len(monthlyPrices), Len(labels))
    IN  [status |-> "ok",
         historicalPrices |-> sorted,
         monthlyPrices |-> monthlyPrices,
         monthlyValuationData |-> map,
         metrics |-> SortedMetrics([i \in 1..Len(map) |-> ValuationPoint(fd.quarterly, map[i])])]

-----------------------------------------------------------------------------
(* The database and getFinancialData *)

\* nothing cached, no request answered, no comparison stock, nothing projected
RestIdle ==
    /\ clock = [now |-> 0, steps |-> 0]
    /\ store = [k \in {"financial_data", "valuation_metrics", "stock_info",
                       "market_indices_data"} |-> [set |-> FALSE]]
    /\ response = [route |-> "none"]
    /\ comparisonStocks = <<>>
    /\ fetches = <<>>
    /\ projection = [calculated |-> FALSE]
    /\ policy = [applied |-> FALSE]
    /\ symbol = "AAPL"
    /\ pending = [requests |-> <<>>, runs |-> 0]
    /\ ttmData = [made |-> FALSE]
    /\ chart = [valuationData |-> {}, fetches |-> <<>>, deps |-> <<>>]

DataIdle ==
    /\ RestIdle
    /\ yearData = <<>>
    /\ quarterData = <<>>
    /\ dividendsData = <<>>
    /\ pc = "load"
    /\ financialData = NullData
    /\ valuation = NoValuation

\* what getFinancialData returns on a cache miss: null, or the nodes processed
FinancialDataOutcomes ==
    IF yearData = <<>> /\ quarterData = <<>> THEN {NullData}
    ELSE {processFinancialData(sy, sq, sd) :
             sy \in SortOutcomes(yearData), sq \in SortOutcomes(quarterData),
             sd \in DividendSortOutcomes(dividendsData)}

\* FirebaseStockService.getFinancialData: read both nodes, process, return
GetFinancialData ==
    /\ pc = "load"
    /\ pc' = "served"
    /\ financialData' \in FinancialDataOutcomes
    /\ UNCHANGED <<dbVars, valuation, cagrVars, restVars>>

\* a raw fundamentals record; an absent numeric field reads as 0
Record(endDate, totalRevenue, netIncome, dividendPayout) ==
    [endDate |-> endDate,
     totalRevenue |-> totalRevenue,
     netIncome |-> netIncome,
     dividendPayout |-> dividendPayout,
     costofGoodsAndServicesSold |-> totalRevenue \div 2,
     cashAndShortTermInvestments |-> 50,
     shortTermInvestments |-> [none |-> TRUE, v |-> 0],
     longTermDebt |-> 20,
     commonStockSharesOutstanding |-> 10,
     operatingCashflow |-> netIncome + 5,
     capitalExpenditures |-> -5]

\* annual records the loader may write: two fiscal years, a second record
\* inside fiscal 2021, and one whose endDate is no date
YearRecords ==
    {Record(IsoDate(2020, 12, 31), 1000, 100, 10),
     Record(IsoDate(2021, 12, 31), 1500, 200, 20),
     Record(IsoDate(2021, 6, 30), 700, 70, 0),
     Record(TextDate, 900, 90, 9)}

\* quarterly records the loader may write, one per endDate encoding
QuarterRecords ==
    {Record(IsoDate(2020, 3, 31), 100, 10, 1),
     Record(IsoDate(2020, 6, 30), 200, 20, 2),
     Record(YmDate(2019, 12), 300, 30, 3),
     Record(FiscalDate(2020, 3), 400, 40, 4),
     Record(TextDate, 500, 50, 5),
     Record(MissingDate, 600, 60, 6)}

\* the loader writes one more annual record under year/<symbol>
PutYearRecord ==
    /\ pc = "load"
    /\ Len(yearData) < MaxYearRecords
    /\ \E r \in YearRecords : yearData' = Append(yearData, r)
    /\ UNCHANGED <<quarterData, dividendsData, pc, financialData, valuation, cagrVars, restVars>>

\* the loader writes one more quarterly record under quarter/<symbol>
PutQuarterRecord ==
    /\ pc = "load"
    /\ Len(quarterData) < MaxQuarterRecords
    /\ \E r \in QuarterRecords : quarterData' = Append(quarterData, r)
    /\ UNCHANGED <<yearData, dividendsData, pc, financialData, valuation, cagrVars, restVars>>

CagrIdle ==
    /\ data = <<>>
    /\ isQuarterlyData = FALSE
    /\ cagr = NoCall

NormInit == DataIdle /\ CagrIdle

NormNext == PutYearRecord \/ PutQuarterRecord \/ GetFinancialData

\* records of any endDate encoding, in any order, through getFinancialData
SpecNorm == NormInit /\ [][NormNext]_vars

-----------------------------------------------------------------------------
(* Claims on processFinancialData's ordering and dropping of records *)

\* period order: by year, then by quarter; "NaN" precedes and follows nothing
Precedes(a, b) ==
    /\ ~a.nan
    /\ ~b.nan
    /\ a.y < b.y \/ (a.y = b.y /\ a.q < b.q)

StrictlyIncreasing(series) ==
    \A i, j \in 1..Len(series) : i < j => Precedes(series[i].year, series[j].year)

\* C1 (as claimed; refuted): for every list of fundamental records, in any
\* input order, each annual and each quarterly series that processFinancialData
\* produces is strictly increasing by period, with no period label twice.
C1_SeriesStrictlyIncreasing ==
    financialData.found =>
        /\ \A name \in DOMAIN financialData.annual :
              StrictlyIncreasing(financialData.annual[name])
        /\ \A name \in DOMAIN financialData.quarterly :
              StrictlyIncreasing(financialData.quarterly[name])

\* an endDate no period can be parsed from
Unparsable(endDate) == endDate.kind \in {"text", "missing"}

WithoutUnparsable(arr) == SelectSeq(arr, LAMBDA r : ~Unparsable(r.endDate))

\* C2 (as claimed; refuted): a record whose endDate cannot be parsed
\* contributes no point to any series, annual or quarterly, and the points of
\* the other records are what they are without it: the result is a result of
\* processing the input with those records removed.
C2_UnparsableContributesNothing ==
    financialData.found =>
        \E sy \in SortOutcomes(WithoutUnparsable(yearData)),
           sq \in SortOutcomes(WithoutUnparsable(quarterData)) :
              financialData = processFinancialData(sy, sq, <<>>)

-----------------------------------------------------------------------------
(* The quarterly payout ratio on consecutive quarters *)

\* the end date of the k-th quarter counted from Q1 2020
QuarterEnd(k) == IsoDate(2020 + ((k - 1) \div 4), (((k - 1) % 4) + 1) * 3, 30)

PayoutIncomes == {-10, 10}
PayoutDividends == {0, 1, 2}

\* the loader writes the record of the next quarter
PutPayoutQuarter ==
    /\ pc = "load"
    /\ Len(quarterData) < MaxPayoutQuarters
    /\ \E ni \in PayoutIncomes, dp \in PayoutDividends :
          quarterData' = Append(quarterData,
                                Record(QuarterEnd(Len(quarterData) + 1), 100, ni, dp))
    /\ UNCHANGED <<yearData, dividendsData, pc, financialData, valuation, cagrVars, restVars>>

PayoutNext == PutPayoutQuarter \/ GetFinancialData

\* consecutive quarters with varying net income and dividendPayout
SpecPayout == NormInit /\ [][PayoutNext]_vars

RawDividends == [i \in 1..Len(quarterData) |-> quarterData[i].dividendPayout]
RawIncomes == [i \in 1..Len(quarterData) |-> quarterData[i].netIncome]

\* C6: in the quarterly payout-ratio series the value at index i >= 3 is
\* 100 * (dividendPayout of quarters i-3..i) / (netIncome of quarters i-3..i)
\* when that netIncome sum is > 0 and 0 otherwise; indices 0, 1, 2 hold 0; with
\* fewer than 4 quarters every value is 0.  (Model positions are index + 1.)
C6_RollingPayoutRatio ==
    financialData.found =>
        LET pr == financialData.quarterly.payoutRatio
        IN  /\ Len(pr) = Len(quarterData)
            /\ \A p \in 1..Len(pr) :
                  IF p >= 4
                  THEN LET sd == SumRange(RawDividends, p - 3, p)
                           sn == SumRange(RawIncomes, p - 3, p)
                       IN  pr[p].value = IF sn > 0 THEN Rat(100 * sd, sn) ELSE Zero
                  ELSE pr[p].value = Zero

\* C6 witness: five quarters served, the last window with a positive income
\* sum and dividends, an earlier window with a non-positive income sum
C6_Witness ==
    /\ financialData.found
    /\ Len(quarterData) = 5
    /\ SumRange(RawIncomes, 2, 5) > 0
    /\ SumRange(RawDividends, 2, 5) > 0
    /\ SumRange(RawIncomes, 1, 4) <= 0
    /\ financialData.quarterly.payoutRatio[5].value # Zero

\* the five quarters of the worked example
ExampleQuarters ==
    /\ Len(quarterData) = 5
    /\ RawIncomes = <<10, 10, 10, 10, 10>>
    /\ RawDividends = <<1, 1, 1, 1, 2>>

\* C7 (as claimed; refuted): on the example the ratio of the first full
\* window (quarters 0..3) is 40 percent and indices 0, 1, 2 hold 0.
C7_FirstWindowForty ==
    (financialData.found /\ ExampleQuarters) =>
        LET pr == financialData.quarterly.payoutRatio
        IN  /\ pr[4].value = Rat(40, 1)
            /\ \A p \in 1..3 : pr[p].value = Zero

\* C7 (amended): on the example the ratio of the first full window (index 3)
\* is 4 / 40 * 100 = 10 percent, index 4 holds 5 / 40 * 100 = 12.5 percent,
\* and indices 0, 1, 2 hold 0.
C7_FirstWindowTen ==
    (financialData.found /\ ExampleQuarters) =>
        LET pr == financialData.quarterly.payoutRatio
        IN  /\ pr[4].value = Rat(10, 1)
            /\ pr[5].value = Rat(25, 2)
            /\ \A p \in 1..3 : pr[p].value = Zero

C7_Witness ==
    /\ financialData.found
    /\ ExampleQuarters
    /\ Len(financialData.quarterly.payoutRatio) = 5

-----------------------------------------------------------------------------
(* The valuation runs *)

\* the number k of the quarter an ISO endDate lies in, Q1 2020 being 1
QuarterNumber(endDate) == (endDate.y - 2020) * 4 + ((endDate.m + 2) \div 3)

AllIso(arr) == \A i \in 1..Len(arr) : arr[i].endDate.kind = "iso"

\* net income of quarter k: a loss every third quarter
QuarterIncome(k) == IF k % 3 = 0 THEN -40 ELSE 10

\* the loader writes a record of any encoding (few of them)
PutOddQuarter ==
    /\ pc = "load"
    /\ Len(quarterData) < MaxOddQuarters
    /\ \E r \in QuarterRecords : quarterData' = Append(quarterData, r)
    /\ UNCHANGED <<yearData, dividendsData, pc, financialData, valuation, cagrVars, restVars>>

\* the loader writes the record of the same, the next or the next but one
\* quarter, in chronological order
PutValuationQuarter ==
    /\ pc = "load"
    /\ Len(quarterData) < MaxValQuarters
    /\ AllIso(quarterData)
    /\ LET last == IF quarterData = <<>> THEN 0
                   ELSE QuarterNumber(quarterData[Len(quarterData)].endDate)
       IN  \E k \in last..(last + 2) :
              /\ k \in 1..NumValQuarters
              /\ quarterData' = Append(quarterData,
                                       Record(QuarterEnd(k), 100, QuarterIncome(k), 1))
    /\ UNCHANGED <<yearData, dividendsData, pc, financialData, valuation, cagrVars, restVars>>

\* monthly closes Yahoo may return: before the first quarter, twice inside
\* one month of Q1 2020, and in Q1 2021
PricePoints ==
    {[date |-> Day(2019, 8, 1), close |-> 30],
     [date |-> Day(2020, 2, 1), close |-> 40],
     [date |-> Day(2020, 2, 20), close |-> 45],
     [date |-> Day(2021, 2, 1), close |-> 50]}

PriceLists == UNION {[1..n -> PricePoints] : n \in 0..MaxPrices}

\* GET /api/valuation/:symbol on a cache miss (a later request is answered
\* from the cache and changes nothing), from the return of its awaited
\* getFinancialData call on: the Yahoo history, the alignment, the response
GetValuation ==
    /\ pc = "served"
    /\ valuation.status = "none"
    /\ \/ /\ ~financialData.found
          /\ valuation' = [NoValuation EXCEPT !.status = "404 no financial data"]
       \/ /\ financialData.found
          /\ valuation' = [NoValuation EXCEPT !.status = "404 no price history"]
       \/ /\ financialData.found
          /\ \E prices \in PriceLists : valuation' = Valuation(financialData, prices)
    /\ UNCHANGED <<dbVars, pc, financialData, cagrVars, restVars>>

ValNext == PutOddQuarter \/ PutValuationQuarter \/ GetFinancialData \/ GetValuation

\* quarterly records, then the valuation of a list of monthly prices
SpecVal == NormInit /\ [][ValNext]_vars

-----------------------------------------------------------------------------
(* Claims on the valuation alignment *)

\* the labels of the quarterly series the alignment matches against
Labels ==
    [i \in 1..Len(financialData.quarterly.revenue) |-> financialData.quarterly.revenue[i].year]

\* the point of the response for a month label
MetricOf(monthLabel) ==
    CHOOSE pt \in {valuation.metrics[i] : i \in 1..Len(valuation.metrics)} :
        pt.date = monthLabel

AllNull(pt) ==
    pt.pe = NullRatio /\ pt.ps = NullRatio /\ pt.pfcf = NullRatio /\ pt.pocf = NullRatio

\* C3: a valuation point whose matched quarter has index < 3 (fewer than 4
\* trailing quarters) has pe, ps, pfcf and pocf all null; every month matched
\* has its point.
C3_NoPartialWindowRatio ==
    valuation.status = "ok" =>
        /\ Len(valuation.metrics) = Len(valuation.monthlyValuationData)
        /\ \A i \in 1..Len(valuation.monthlyValuationData) :
              LET e == valuation.monthlyValuationData[i]
              IN  /\ \E j \in 1..Len(valuation.metrics) :
                        valuation.metrics[j].date = e.monthLabel
                  /\ e.idx < 3 => AllNull(MetricOf(e.monthLabel))

\* C3 witness: a month matched to index 1 (2 trailing quarters) whose
\* partial sums are positive, and whose point holds four nulls
C3_Witness ==
    /\ valuation.status = "ok"
    /\ \E i \in 1..Len(valuation.monthlyValuationData) :
          LET e == valuation.monthlyValuationData[i]
          IN  /\ e.idx = 1
              /\ Trailing(financialData.quarterly.revenue, e.idx, 0) > 0
              /\ Trailing(financialData.quarterly.netIncome, e.idx, 0) > 0
              /\ e.price > 0
              /\ AllNull(MetricOf(e.monthLabel))

HasLabel(label) == \E i \in 1..Len(Labels) : Labels[i] = label

\* r is a quarter of the series before pl, and no quarter before pl is later
IsLatestPreceding(r, pl) ==
    /\ Precedes(r, pl)
    /\ \A i \in 1..Len(Labels) : Precedes(Labels[i], pl) => ~Precedes(r, Labels[i])

\* C4 (as claimed; refuted): each price is matched to the quarter carrying
\* its own label Q{ceil(month/3)} {year} when the series has it, otherwise to
\* the latest quarter preceding the price date, and never to a quarter later
\* than the price date.
C4_NoLookAhead ==
    valuation.status = "ok" =>
        \A i \in 1..Len(valuation.monthlyPrices) :
            LET mp == valuation.monthlyPrices[i]
                pl == PriceQuarterLabel(mp.date)
                r == Labels[mp.quarterIndex + 1]
            IN  /\ HasLabel(pl) => r = pl
                /\ ~HasLabel(pl) => IsLatestPreceding(r, pl)
                /\ ~Precedes(pl, r)

\* C4 (amended): the quarter carrying the price's own label when the series
\* has it; otherwise index 0 when the price date is before the first quarter
\* of the series; otherwise the latest quarter preceding the price date, or
\* index 0 when none precedes it.  Only in the floor case (price before the
\* first quarter of the series) is the quarter returned later than the price.
C4_LookAheadOnlyAtFloor ==
    valuation.status = "ok" =>
        \A i \in 1..Len(valuation.monthlyPrices) :
            LET mp == valuation.monthlyPrices[i]
                pl == PriceQuarterLabel(mp.date)
                r == Labels[mp.quarterIndex + 1]
            IN  IF HasLabel(pl) THEN r = pl
                ELSE IF Precedes(pl, Labels[1]) THEN mp.quarterIndex = 0
                ELSE /\ ~Precedes(pl, r)
                     /\ IF \E j \in 1..Len(Labels) : Precedes(Labels[j], pl)
                        THEN IsLatestPreceding(r, pl)
                        ELSE mp.quarterIndex = 0

\* C4 witness: one response with a price matched by its own label, and a
\* price without its label matched to the latest of two preceding quarters
\* while a later quarter exists
C4_Witness ==
    /\ valuation.status = "ok"
    /\ \E i, j \in 1..Len(valuation.monthlyPrices) :
          LET a == valuation.monthlyPrices[i]
              b == valuation.monthlyPrices[j]
          IN  /\ HasLabel(PriceQuarterLabel(a.date))
              /\ Labels[a.quarterIndex + 1] = PriceQuarterLabel(a.date)
              /\ ~HasLabel(PriceQuarterLabel(b.date))
              /\ b.quarterIndex >= 1
              /\ b.quarterIndex + 1 < Len(Labels)
              /\ Precedes(PriceQuarterLabel(b.date), Labels[Len(Labels)])

\* the price's quarter is before every quarter of the series
BeforeEarliest(pl) == \A i \in 1..Len(Labels) : Labels[i].nan \/ Precedes(pl, Labels[i])

\* C5: with a non-empty quarterly series every price point is matched, to an
\* index in 0..len-1; a price dated before the earliest quarter is matched to
\* index 0.
C5_IndexInRange ==
    (valuation.status = "ok" /\ Len(Labels) > 0) =>
        /\ Len(valuation.monthlyPrices) = Len(valuation.historicalPrices)
        /\ \A i \in 1..Len(valuation.monthlyPrices) :
              LET mp == valuation.monthlyPrices[i]
              IN  /\ mp.quarterIndex \in 0..(Len(Labels) - 1)
                  /\ BeforeEarliest(PriceQuarterLabel(mp.date)) => mp.quarterIndex = 0

\* C5 witness: a price before the earliest of at least two dated quarters,
\* matched to index 0
C5_Witness ==
    /\ valuation.status = "ok"
    /\ Len(Labels) >= 2
    /\ \A i \in 1..Len(Labels) : ~Labels[i].nan
    /\ \E i \in 1..Len(valuation.monthlyPrices) :
          /\ BeforeEarliest(PriceQuarterLabel(valuation.monthlyPrices[i].date))
          /\ valuation.monthlyPrices[i].quarterIndex = 0

-----------------------------------------------------------------------------
(* The chart detail dialog *)

CagrInit ==
    /\ data = <<>>
    /\ isQuarterlyData \in BOOLEAN
    /\ cagr = NoCall
    /\ DataIdle

\* the series handed to the dialog gains its next point
AppendPoint ==
    /\ Len(data) < (IF isQuarterlyData THEN MaxQuarters ELSE MaxYears)
    /\ \E v \in (IF isQuarterlyData THEN QuarterValues ELSE AnnualValues) :
          data' = Append(data, v)
    /\ cagr' = NoCall
    /\ UNCHANGED <<isQuarterlyData, dataVars, restVars>>

\* growthRates: calculateCAGR(data, years, isQuarterlyData)
CalculateCAGR ==
    /\ \E years \in CagrYears :
          cagr' = [years |-> years, value |-> calculateCAGR(data, years, isQuarterlyData)]
    /\ UNCHANGED <<data, isQuarterlyData, dataVars, restVars>>

CagrNext == AppendPoint \/ CalculateCAGR

\* series of every length and sign pattern through calculateCAGR
SpecCagr == CagrInit /\ [][CagrNext]_vars

-----------------------------------------------------------------------------
(* Claims on calculateCAGR *)

Called == cagr # NoCall

\* enough history for the window of the call
SufficientHistory ==
    IF isQuarterlyData THEN Len(data) >= cagr.years * 4 + 4
    ELSE Len(data) >= cagr.years + 1

\* the two values compared: the points `years` apart, or the TTM sums of the
\* last 4 quarters and of the 4 quarters ending `years` years earlier
EndOfWindow ==
    IF isQuarterlyData THEN SumRange(data, Len(data) - 3, Len(data)) ELSE data[Len(data)]
StartOfWindow ==
    IF isQuarterlyData
    THEN SumRange(data, Len(data) - 4 * cagr.years - 3, Len(data) - 4 * cagr.years)
    ELSE data[Len(data) - cagr.years]

\* C8: calculateCAGR(series, years, false) is 0 when the series has fewer
\* than years + 1 points, for years in {1, 3, 5, 10}; otherwise it is the
\* growth from the point `years` positions before the last to the last point.
C8_AnnualInsufficientHistory ==
    (Called /\ ~isQuarterlyData) =>
        IF Len(data) < cagr.years + 1 THEN cagr.value = Zero
        ELSE cagr.value = AnnualPolicy(data[Len(data) - cagr.years], data[Len(data)], cagr.years)

\* C8 witness: 3 years asked of exactly 3 annual points, none of them 0
C8_Witness ==
    /\ Called
    /\ ~isQuarterlyData
    /\ cagr.years = 3
    /\ Len(data) = 3
    /\ \A i \in 1..3 : data[i] # 0
    /\ cagr.value = Zero

\* C9: from a start < 0 to an end > 0 the result is
\* (end - start) / |start| / years, annual and quarterly alike; the annual
\* series [-100, 50] over 1 year gives 1.5.
C9_NegativeToPositive ==
    (Called /\ SufficientHistory /\ StartOfWindow < 0 /\ EndOfWindow > 0) =>
        /\ cagr.value = Rat(EndOfWindow - StartOfWindow, Abs(StartOfWindow) * cagr.years)
        /\ (~isQuarterlyData /\ data = <<-100, 50>> /\ cagr.years = 1)
              => cagr.value = Rat(3, 2)

\* C9 witness: the annual example, computed
C9_Witness ==
    /\ Called
    /\ ~isQuarterlyData
    /\ data = <<-100, 50>>
    /\ cagr.years = 1
    /\ cagr.value = Rat(3, 2)

\* C10: from a start < 0 to an end < 0 the result is strictly positive when
\* |end| < |start| and <= 0 when |end| >= |start|, of magnitude
\* (1 + ||end| - |start|| / |start|)^(1/years) - 1; [-100, -40] over 1 year
\* gives 0.6.
C10_BothNegative ==
    (Called /\ SufficientHistory /\ StartOfWindow < 0 /\ EndOfWindow < 0) =>
        LET s == Abs(StartOfWindow)
            e == Abs(EndOfWindow)
            magnitude == PowMinus1(s + Abs(e - s), s, cagr.years)
        IN  /\ IF e < s
               THEN cagr.value = magnitude /\ IsPositive(cagr.value)
               ELSE cagr.value = Negate(magnitude) /\ IsNonPositive(cagr.value)
            /\ (~isQuarterlyData /\ data = <<-100, -40>> /\ cagr.years = 1)
                  => cagr.value = Rat(3, 5)

\* C10 witness: a quarterly series whose TTM loss grows over one year
C10_Witness ==
    /\ Called
    /\ isQuarterlyData
    /\ SufficientHistory
    /\ StartOfWindow < 0
    /\ EndOfWindow < StartOfWindow
    /\ IsNonPositive(cagr.value)
    /\ cagr.value # Zero

-----------------------------------------------------------------------------
(* The dividend runs: fundamentals, then dividend events in any order *)

MaxDividends == 3        \* dividend events under dividends/<symbol>

TwoYears ==
    <<Record(IsoDate(2020, 12, 31), 1000, 100, 10),
      Record(IsoDate(2021, 12, 31), 1500, 200, 20)>>

FiveQuarters ==
    [k \in 1..5 |-> Record(QuarterEnd(k), 100, 10, IF k = 5 THEN 2 ELSE 1)]

\* the loader writes the fundamentals of the symbol: years, quarters or both
LoadFundamentals ==
    /\ pc = "load"
    /\ yearData = <<>>
    /\ quarterData = <<>>
    /\ \E y \in {<<>>, TwoYears}, q \in {<<>>, FiveQuarters} :
          /\ y # <<>> \/ q # <<>>
          /\ yearData' = y
          /\ quarterData' = q
    /\ UNCHANGED <<dividendsData, pc, financialData, valuation, cagrVars, restVars>>

\* dividend events the loader may write: three payments of which two fall in
\* Q1 2020, an event without payment, the marker record, and a payment whose
\* Date is no date
DividendEvents ==
    {DividendEvent(IsoDate(2020, 1, 15), 1),
     DividendEvent(IsoDate(2020, 3, 15), 2),
     DividendEvent(IsoDate(2020, 5, 15), 3),
     DividendEvent(IsoDate(2019, 11, 15), 0),
     DividendEvent(EmptyMarker, 0),
     DividendEvent(TextDate, 4)}

\* the loader writes one more dividend event under dividends/<symbol>
PutDividendEvent ==
    /\ pc = "load"
    /\ Len(dividendsData) < MaxDividends
    /\ \E e \in DividendEvents : dividendsData' = Append(dividendsData, e)
    /\ UNCHANGED <<yearData, quarterData, pc, financialData, valuation, cagrVars, restVars>>

DivNext == LoadFundamentals \/ PutDividendEvent \/ GetFinancialData

\* fundamentals and dividend events through getFinancialData
SpecDiv == NormInit /\ [][DivNext]_vars

RECURSIVE PaidIn(_, _, _)
\* the sum of the Dividends of events[i..] dated in the quarter `label`
PaidIn(events, label, i) ==
    IF i > Len(events) THEN 0
    ELSE (IF QuarterLabel(NewDate(events[i].Date)) = label THEN events[i].Dividends ELSE 0)
         + PaidIn(events, label, i + 1)

\* C11 (as claimed; refuted): the dividend series holds at most one point per
\* quarter label, the value of a point is the sum of the payments dated in its
\* quarter, and the points are in chronological order.
C11_DividendsAggregatedByQuarter ==
    financialData.found =>
        LET dividends == financialData.dividends
        IN  /\ \A i, j \in 1..Len(dividends) :
                  i # j => dividends[i].year # dividends[j].year
            /\ \A i \in 1..Len(dividends) :
                  dividends[i].value = PaidIn(dividendsData, dividends[i].year, 1)
            /\ StrictlyIncreasing(dividends)

\* the node dividends/<symbol> holds the single record {Date: 'empty'}
OnlyMarker == dividendsData = <<DividendEvent(EmptyMarker, 0)>>

\* C12: with the single marker record {Date: 'empty'} as dividend input,
\* getFinancialData returns data whenever fundamentals exist, its dividend
\* series is empty, and the annual and quarterly payout-ratio series are the
\* ones produced without any dividend input, one point per record.
C12_MarkerGivesEmptyDividends ==
    (OnlyMarker /\ pc = "served") =>
        /\ financialData.found <=> (yearData # <<>> \/ quarterData # <<>>)
        /\ financialData.found =>
              /\ financialData.dividends = <<>>
              /\ Len(financialData.annual.payoutRatio) = Len(yearData)
              /\ Len(financialData.quarterly.payoutRatio) = Len(quarterData)
              /\ \E sy \in SortOutcomes(yearData), sq \in SortOutcomes(quarterData) :
                    LET without == processFinancialData(sy, sq, <<>>)
                    IN  /\ financialData.annual.payoutRatio = without.annual.payoutRatio
                        /\ financialData.quarterly.payoutRatio
                              = without.quarterly.payoutRatio

\* C12 witness: the marker with two years and five quarters of fundamentals,
\* served with payout ratios that are not all 0
C12_Witness ==
    /\ OnlyMarker
    /\ pc = "served"
    /\ financialData.found
    /\ financialData.dividends = <<>>
    /\ Len(financialData.annual.payoutRatio) = 2
    /\ financialData.annual.payoutRatio[1].value = Rat(10, 1)
    /\ Len(financialData.quarterly.payoutRatio) = 5
    /\ financialData.quarterly.payoutRatio[5].value = Rat(25, 2)

-----------------------------------------------------------------------------
(* The cache and the routes that stage their results through it.  Time is  *)
(* Date.now() in minutes.  An entry of the store is {data, expiry}; the    *)
(* model keeps beside them the time `at` of the set that wrote the entry.  *)
(* One symbol is requested, so a key stands for <prefix>_<symbol>.         *)

MaxClockSteps == 2       \* times the clock advances in one run

FiveMinutes == 5
DEFAULT_CACHE_DURATION == 1440

CacheKeys == {"financial_data", "valuation_metrics", "stock_info", "market_indices_data"}

NoEntry == [set |-> FALSE]
NoResponse == [route |-> "none"]

\* faulty variant: an entry is no longer served at the instant of its expiry
CacheHitEarly(st, key, now) == st[key].set /\ now < st[key].expiry

\* cache.get(key) returns the data: the entry exists and !(Date.now() > entry.expiry)
CacheHit(st, key, now) == st[key].set /\ ~(now > st[key].expiry)

\* the store after cache.get(key): an expired entry is removed
CacheGetStore(st, key, now) ==
    IF st[key].set /\ now > st[key].expiry THEN [st EXCEPT ![key] = NoEntry] ELSE st

\* cache.set(key, data, duration); duration 0 stands for none given
CacheSet(st, key, value, duration, now) ==
    [st EXCEPT ![key] =
        [set |-> TRUE,
         data |-> value,
         expiry |-> now + (IF duration # 0 THEN duration ELSE DEFAULT_CACHE_DURATION),
         at |-> now]]

CacheDelete(st, key) == [st EXCEPT ![key] = NoEntry]

CacheClear == [k \in CacheKeys |-> NoEntry]

\* what a Firebase read may do (Firebase is configured)
FirebaseOutcomes == {"ok", "throws"}

\* faulty variant: the result is cached even when it is null
getFinancialDataCachingNull(st, now, firebase) ==
    IF CacheHit(st, "financial_data", now)
    THEN {[data |-> st["financial_data"].data, store |-> st, read |-> FALSE]}
    ELSE {[data |-> IF firebase = "ok" THEN fd ELSE NullData,
           store |-> CacheSet(st, "financial_data", fd, 0, now),
           read |-> TRUE] : fd \in FinancialDataOutcomes}

\* FirebaseStockService.getFinancialData: the data returned, the store it
\* leaves, and whether it went past its cache check to read Firebase
getFinancialData(st, now, firebase) ==
    IF CacheHit(st, "financial_data", now)
    THEN {[data |-> st["financial_data"].data, store |-> st, read |-> FALSE]}
    ELSE LET missed == CacheGetStore(st, "financial_data", now)
         IN  IF firebase # "ok"
             THEN {[data |-> NullData, store |-> missed, read |-> TRUE]}
             ELSE {[data |-> fd,
                    store |-> IF fd.found
                              THEN CacheSet(missed, "financial_data", fd, 0, now)
                              ELSE missed,
                    read |-> TRUE] : fd \in FinancialDataOutcomes}

\* a response served from the cache under `key`
Cached(route, st, key) ==
    [route |-> route, status |-> 200, cached |-> TRUE, body |-> st[key].data,
     at |-> st[key].at, read |-> FALSE, firebase |-> "ok", nocache |-> FALSE]

\* a response built by the handler
Built(route, status, body, read, firebase, nocache) ==
    [route |-> route, status |-> status, cached |-> FALSE, body |-> body,
     read |-> read, firebase |-> firebase, nocache |-> nocache]

\* the fundamentals of the symbol in the cache runs: one year, one quarter
\* or both, written by the loader at any moment
LoadSymbol ==
    /\ pc = "load"
    /\ yearData = <<>> /\ quarterData = <<>>
    /\ \E y \in {<<>>, SubSeq(TwoYears, 1, 1)}, q \in {<<>>, SubSeq(FiveQuarters, 1, 1)} :
          /\ y # <<>> \/ q # <<>>
          /\ yearData' = y
          /\ quarterData' = q
    /\ UNCHANGED <<pc, financialData, valuation, dividendsData, cagrVars, restVars>>

\* time passes
Tick ==
    /\ clock.steps < MaxClockSteps
    /\ \E dt \in {FiveMinutes, DEFAULT_CACHE_DURATION} :
          clock' = [now |-> clock.now + dt, steps |-> clock.steps + 1]
    /\ UNCHANGED <<store, response, dataVars, cagrVars, compareVars, projection, policy, clientVars>>

\* GET /api/financial/:symbol, with or without ?nocache=true
FinancialRequest ==
    \E nocache \in BOOLEAN :
       LET key == "financial_data"
           purged == IF nocache THEN CacheDelete(store, key) ELSE store
           missed == CacheGetStore(purged, key, clock.now)
       IN  /\ IF CacheHit(purged, key, clock.now)
              THEN /\ response' = Cached("financial", purged, key)
                   /\ store' = purged
              ELSE \E firebase \in FirebaseOutcomes :
                      \E got \in getFinancialData(missed, clock.now, firebase) :
                         IF got.data.found
                         THEN /\ response' = Built("financial", 200, got.data,
                                                   got.read, firebase, nocache)
                              /\ store' = CacheSet(got.store, key, got.data, 0, clock.now)
                         ELSE /\ response' = Built("financial", 404, NullData,
                                                   got.read, firebase, nocache)
                              /\ store' = got.store
           /\ UNCHANGED <<clock, dataVars, cagrVars, compareVars, projection, policy, clientVars>>

\* the monthly closes Yahoo returns in the cache runs
YahooHistory == <<[date |-> Day(2020, 2, 1), close |-> 40]>>

\* the valuation handler after getFinancialData returned `got`
ValuationBuilt(got, yahoo, firebase, now) ==
    IF ~got.data.found \/ yahoo = "throws"
    THEN [response |-> Built("valuation", 404, NullData, got.read, firebase, FALSE),
          store |-> got.store]
    ELSE IF got.data.quarterly.revenue = <<>>
    THEN [response |-> Built("valuation", 500, NullData, got.read, firebase, FALSE),
          store |-> got.store]
    ELSE LET metrics == Valuation(got.data, YahooHistory).metrics
         IN  [response |-> Built("valuation", 200, metrics, got.read, firebase, FALSE),
              store |-> CacheSet(got.store, "valuation_metrics", metrics, 0, now)]

\* GET /api/valuation/:symbol: the cache, getValuationMetrics (always null),
\* getFinancialData, the Yahoo history, the alignment (a TypeError without
\* quarters: 500), cache.set
ValuationRequest ==
    LET key == "valuation_metrics"
        missed == CacheGetStore(store, key, clock.now)
    IN  /\ IF CacheHit(store, key, clock.now)
           THEN /\ response' = Cached("valuation", store, key)
                /\ store' = store
           ELSE \E firebase \in FirebaseOutcomes, yahoo \in {"ok", "throws"} :
                   \E got \in getFinancialData(missed, clock.now, firebase) :
                      LET built == ValuationBuilt(got, yahoo, firebase, clock.now)
                      IN  /\ response' = built.response
                          /\ store' = built.store
        /\ UNCHANGED <<clock, dataVars, cagrVars, compareVars, projection, policy, clientVars>>

\* GET /api/stock/:symbol: the cache, getStockInfo (always null), the Yahoo
\* quote stamped with the time, cache.set for 5 minutes
StockRequest ==
    LET key == "stock_info"
        missed == CacheGetStore(store, key, clock.now)
        stock == [lastUpdated |-> clock.now]
    IN  /\ IF CacheHit(store, key, clock.now)
           THEN /\ response' = Cached("stock", store, key)
                /\ store' = store
           ELSE \E yahoo \in {"ok", "throws"} :
                   IF yahoo = "ok"
                   THEN /\ response' = Built("stock", 200, stock,
                                             FALSE, "ok", FALSE)
                        /\ store' = CacheSet(missed, key, stock, FiveMinutes, clock.now)
                   ELSE /\ response' = Built("stock", 404, NullData,
                                             FALSE, "ok", FALSE)
                        /\ store' = missed
        /\ UNCHANGED <<clock, dataVars, cagrVars, compareVars, projection, policy, clientVars>>

\* GET /api/market-indices: the cache, one Yahoo quote per index, cache.set
\* for 5 minutes
MarketIndicesRequest ==
    LET key == "market_indices_data"
        missed == CacheGetStore(store, key, clock.now)
        indices == [quotes |-> 6, lastUpdated |-> clock.now]
    IN  /\ IF CacheHit(store, key, clock.now)
           THEN /\ response' = Cached("market-indices", store, key)
                /\ store' = store
           ELSE /\ response' = Built("market-indices", 200, indices,
                                     FALSE, "ok", FALSE)
                /\ store' = CacheSet(missed, key, indices, FiveMinutes, clock.now)
        /\ UNCHANGED <<clock, dataVars, cagrVars, compareVars, projection, policy, clientVars>>

\* cache.get(key), called directly
Get ==
    /\ \E key \in CacheKeys :
          /\ response' =
                [route |-> "get", key |-> key,
                 hit |-> CacheHit(store, key, clock.now),
                 body |-> IF CacheHit(store, key, clock.now) THEN store[key].data
                          ELSE NullData]
          /\ store' = CacheGetStore(store, key, clock.now)
    /\ UNCHANGED <<clock, dataVars, cagrVars, compareVars, projection, policy, clientVars>>

\* cache.delete(key), called directly
Delete ==
    /\ \E key \in CacheKeys :
          /\ response' = [route |-> "delete", key |-> key]
          /\ store' = CacheDelete(store, key)
    /\ UNCHANGED <<clock, dataVars, cagrVars, compareVars, projection, policy, clientVars>>

\* cache.clear(), called directly
Clear ==
    /\ response' = [route |-> "clear"]
    /\ store' = CacheClear
    /\ UNCHANGED <<clock, dataVars, cagrVars, compareVars, projection, policy, clientVars>>

CacheNext ==
    \/ LoadSymbol
    \/ Tick
    \/ FinancialRequest
    \/ ValuationRequest
    \/ StockRequest
    \/ MarketIndicesRequest
    \/ Get
    \/ Delete
    \/ Clear

\* requests, purges and the passing of time over one symbol's cache entries
SpecCache == NormInit /\ [][CacheNext]_vars


\* the time-to-live the kinds of cached result are meant to have
TtlOfKind(key) == IF key = "financial_data" THEN DEFAULT_CACHE_DURATION ELSE FiveMinutes

\* C13: every cached result expires by its kind, 24 hours after it was stored
\* for fundamentals and 5 minutes after for the stock quote, the market
\* indices and the valuation metrics; a valuation served from the cache was
\* stored at most 5 minutes before
C13_TtlByKind ==
    /\ \A key \in CacheKeys :
          store[key].set => store[key].expiry = store[key].at + TtlOfKind(key)
    /\ (response.route = "valuation" /\ response.cached)
          => clock.now <= response.at + FiveMinutes

\* a step of one cache operation or request: neither time nor the database moves
OperationStep == clock' = clock /\ UNCHANGED dbVars

\* the entry under `key` is there and its time has not passed
Live(key) == store[key].set /\ clock.now <= store[key].expiry

\* C14: an entry stored at t expires at t + d, d being 24 hours when no duration
\* was given; get returns its value at every time up to t + d and null later,
\* removing it; after delete, clear or nocache=true the entry is gone, get
\* returns null and the financial request rebuilds from Firebase
C14_CacheLifecycle ==
    /\ [](\A key \in CacheKeys :
             store[key].set =>
                store[key].expiry = store[key].at
                    + (IF key \in {"stock_info", "market_indices_data"}
                       THEN FiveMinutes ELSE DEFAULT_CACHE_DURATION))
    /\ [][OperationStep =>
            /\ response'.route = "get" =>
                  LET key == response'.key
                  IN  /\ response'.hit = Live(key)
                      /\ Live(key) => response'.body = store[key].data /\ store' = store
                      /\ ~Live(key) => response'.body = NullData /\ ~store'[key].set
            /\ response'.route = "delete" => ~store'[response'.key].set
            /\ response'.route = "clear" => \A key \in CacheKeys : ~store'[key].set
            /\ (response'.route = "financial" /\ response'.nocache) =>
                  ~response'.cached /\ response'.read]_vars

\* C14 witness: get served an entry at the very instant of its expiry
C14_Witness ==
    /\ response.route = "get"
    /\ response.hit
    /\ store[response.key].set
    /\ clock.now = store[response.key].expiry
    /\ clock.now > store[response.key].at

\* C15: when getFinancialData goes to Firebase and the read throws, or there
\* are neither years nor quarters, it returns null (the routes answer 404) and
\* no entry for the fundamentals is left in the cache
C15_NullIsNotCached ==
    [][(/\ OperationStep
        /\ response'.route \in {"financial", "valuation"}
        /\ response'.read
        /\ response'.firebase = "throws" \/ (yearData = <<>> /\ quarterData = <<>>))
       => /\ response'.status = 404
          /\ response'.body = NullData
          /\ ~store'["financial_data"].set]_vars

\* C15 witness: the fundamentals exist, the read threw, the answer is 404 and
\* nothing is cached
C15_Witness ==
    /\ response.route = "financial"
    /\ response.read
    /\ response.firebase = "throws"
    /\ response.status = 404
    /\ yearData # <<>>
    /\ ~store["financial_data"].set

-----------------------------------------------------------------------------
(* useStockData: the comparison list *)

MaxFetches == 2          \* addComparisonStock calls awaiting their fetch at once

COMPARISON_COLORS == <<"#10b981", "#f97316", "#8b5cf6">>

\* the symbols the user may type into the compare dialog
Symbols == {"AAPL", "MSFT", "GOOG", "AMZN", "NVDA"}

\* COMPARISON_COLORS.indexOf(color), 0-based
ColorIndexOf(color) ==
    IF \E k \in 1..Len(COMPARISON_COLORS) : COMPARISON_COLORS[k] = color
    THEN (CHOOSE k \in 1..Len(COMPARISON_COLORS) : COMPARISON_COLORS[k] = color) - 1
    ELSE -1

RECURSIVE FirstUnused(_, _)
\* while (usedColorIndices.includes(colorIndex) && colorIndex < 3) colorIndex++
FirstUnused(usedColorIndices, colorIndex) ==
    IF colorIndex \in usedColorIndices /\ colorIndex < Len(COMPARISON_COLORS)
    THEN FirstUnused(usedColorIndices, colorIndex + 1)
    ELSE colorIndex

\* the colour of a new stock, from the list the call sees
NewColor(stocks) ==
    LET usedColorIndices == {ColorIndexOf(stocks[k].color) : k \in 1..Len(stocks)}
        colorIndex == FirstUnused(usedColorIndices, 0)
    IN  COMPARISON_COLORS[(IF colorIndex >= Len(COMPARISON_COLORS)
                           THEN Len(stocks) % Len(COMPARISON_COLORS)
                           ELSE colorIndex) + 1]

\* the sequence without its position i
Without(seq, i) == SubSeq(seq, 1, i - 1) \o SubSeq(seq, i + 1, Len(seq))

\* the early return of addComparisonStock on the list the call sees
Refused(stocks, stockSymbol) ==
    \/ stockSymbol = symbol
    \/ \E k \in 1..Len(stocks) : stocks[k].symbol = stockSymbol
    \/ Len(stocks) >= 3

\* addComparisonStock up to its await: the checks on the list of this render,
\* then the fetch is in flight with the stock the call will add
addComparisonStock ==
    /\ Len(fetches) < MaxFetches
    /\ \E stockSymbol \in Symbols :
          /\ ~Refused(comparisonStocks, stockSymbol)
          /\ fetches' = Append(fetches,
                               [symbol |-> stockSymbol,
                                color |-> NewColor(comparisonStocks),
                                isActive |-> TRUE])
    /\ UNCHANGED <<comparisonStocks, dataVars, cagrVars, cacheVars, projection, policy, clientVars>>

\* the fetch of one call resolves: setComparisonStocks(prev => [...prev, newStock])
AddResolved ==
    /\ \E i \in 1..Len(fetches) :
          /\ comparisonStocks' = Append(comparisonStocks, fetches[i])
          /\ fetches' = Without(fetches, i)
    /\ UNCHANGED <<dataVars, cagrVars, cacheVars, projection, policy, clientVars>>

\* the fetch of one call fails: the catch logs and the list stays
AddRejected ==
    /\ \E i \in 1..Len(fetches) : fetches' = Without(fetches, i)
    /\ UNCHANGED <<comparisonStocks, dataVars, cagrVars, cacheVars, projection, policy, clientVars>>

removeComparisonStock ==
    /\ \E stockSymbol \in Symbols :
          comparisonStocks' = SelectSeq(comparisonStocks, LAMBDA stock : stock.symbol # stockSymbol)
    /\ UNCHANGED <<fetches, dataVars, cagrVars, cacheVars, projection, policy, clientVars>>

toggleComparisonStock ==
    /\ \E stockSymbol \in Symbols :
          comparisonStocks' =
             [k \in 1..Len(comparisonStocks) |->
                 IF comparisonStocks[k].symbol = stockSymbol
                 THEN [comparisonStocks[k] EXCEPT !.isActive = ~@]
                 ELSE comparisonStocks[k]]
    /\ UNCHANGED <<fetches, dataVars, cagrVars, cacheVars, projection, policy, clientVars>>

\* CompareModal's "clear all": onRemove for every stock of the list
handleClearAll ==
    /\ comparisonStocks # <<>>
    /\ comparisonStocks' = <<>>
    /\ UNCHANGED <<fetches, dataVars, cagrVars, cacheVars, projection, policy, clientVars>>

CompareNext ==
    \/ addComparisonStock
    \/ AddResolved
    \/ AddRejected
    \/ removeComparisonStock
    \/ toggleComparisonStock
    \/ handleClearAll

\* the compare dialog used in any order, fetches resolving in any order
SpecCompare == NormInit /\ [][CompareNext]_vars

\* C16: whatever the order of the calls and of their fetches, the comparison
\* list holds at most 3 stocks
C16_AtMostThreeStocks == Len(comparisonStocks) <= 3

-----------------------------------------------------------------------------
(* the gross and net margins of the records *)

MaxMarginRecords == 2    \* records under both nodes together

\* a numeric field of a Firebase record: absent, or present with a value
Absent == [none |-> TRUE, v |-> 0]
Present(v) == [none |-> FALSE, v |-> v]

\* what the fields of the margins may hold
RevenueFields == {Absent, Present(0), Present(100)}
CostFields == {Absent, Present(0), Present(40)}
IncomeFields == {Absent, Present(0), Present(30)}

\* a record with the three fields of the margins as given; an absent field
\* reads as undefined, which the tests of the code take as they take 0; `fields`
\* keeps what the node holds
MarginRecord(endDate, revenue, cost, income) ==
    [Record(endDate, revenue.v, income.v, 0) EXCEPT !.costofGoodsAndServicesSold = cost.v]
    @@ [fields |-> [totalRevenue |-> revenue,
                    costofGoodsAndServicesSold |-> cost,
                    netIncome |-> income]]

\* the loader writes one more record, the next fiscal year or the next quarter
PutMarginRecord ==
    /\ pc = "load"
    /\ Len(yearData) + Len(quarterData) < MaxMarginRecords
    /\ \E revenue \in RevenueFields, cost \in CostFields, income \in IncomeFields :
          \/ /\ yearData' = Append(yearData,
                                   MarginRecord(IsoDate(2020 + Len(yearData), 12, 31),
                                                revenue, cost, income))
             /\ UNCHANGED quarterData
          \/ /\ quarterData' = Append(quarterData,
                                      MarginRecord(QuarterEnd(Len(quarterData) + 1),
                                                   revenue, cost, income))
             /\ UNCHANGED yearData
    /\ UNCHANGED <<dividendsData, pc, financialData, valuation, cagrVars, restVars>>

MarginNext == PutMarginRecord \/ GetFinancialData

\* records in chronological order whose margin fields are absent, 0 or not 0
SpecMargin == NormInit /\ [][MarginNext]_vars

\* the margin the rule gives a record: value / totalRevenue * 100 when both
\* fields are present and totalRevenue is not 0, else 0
MarginByRule(revenue, value) ==
    IF ~revenue.none /\ ~value.none /\ revenue.v # 0
    THEN Rat(value.v * 100, revenue.v)
    ELSE Zero

\* the margins of the served series at position k are those of the rule
MarginsByRule(series, records, k) ==
    LET fields == records[k].fields
    IN  /\ series.grossMargin[k].value =
              MarginByRule(fields.totalRevenue,
                           IF fields.costofGoodsAndServicesSold.none THEN Absent
                           ELSE Present(fields.totalRevenue.v
                                        - fields.costofGoodsAndServicesSold.v))
        /\ series.netMargin[k].value = MarginByRule(fields.totalRevenue, fields.netIncome)

\* C17: for every record, grossMargin is (totalRevenue - cost) / totalRevenue
\* * 100 when both fields are present and totalRevenue is not 0, a present
\* cost of 0 included, and 0 otherwise; netMargin likewise with netIncome
C17_MarginsOfPresentFields ==
    financialData.found =>
       /\ \A k \in 1..Len(yearData) : MarginsByRule(financialData.annual, yearData, k)
       /\ \A k \in 1..Len(quarterData) : MarginsByRule(financialData.quarterly, quarterData, k)

-----------------------------------------------------------------------------
(* DataToggle: the 5-year price projection *)

projectionYears == 5

\* the defaults of the growth rate and of the exit multiple, both modes
DefaultGrowthRate == 15
DefaultMultiple == 22

FromInt(n) == Rat(n, 1)

RatTimes(a, b) == Rat(a.n * b.n, a.d * b.d)

RECURSIVE RatPower(_, _)
\* x multiplied i times
RatPower(x, i) == IF i = 0 THEN FromInt(1) ELSE RatTimes(RatPower(x, i - 1), x)

\* 1 + growthRate / 100
GrowthFactor(growthRate) == Rat(100 + growthRate, 100)

\* sign * base * (n/d)^(i/5) with n/d > 0 and i < 5, kept as a root unless n = d
RootPower(sign, base, ratio, i) ==
    IF ratio.n = ratio.d THEN FromInt(sign * base)
    ELSE [k |-> "root", s |-> sign, base |-> base, n |-> ratio.n, d |-> ratio.d,
          i |-> i, y |-> projectionYears]

\* currentPrice * Math.pow(1 + cagr / 100, i), cagr being
\* (Math.pow(finalPrice / currentPrice, 1 / 5) - 1) * 100: Math.pow of a
\* negative base with the exponent 1/5 is NaN
ProjectedPrice(currentPrice, finalPrice, i) ==
    LET ratio == Rat(finalPrice.n, finalPrice.d * currentPrice)
    IN  IF ratio.n < 0 THEN NaN
        ELSE IF ratio.n = 0 THEN Zero
        ELSE IF i = projectionYears THEN finalPrice
        ELSE RootPower(1, currentPrice, ratio, i)

\* the inputs of the mode in use
PerShareValue(p) == IF p.projectionMode = "earnings" THEN p.ttmEPS ELSE p.ttmFCFPerShare
GrowthRate(p) == IF p.projectionMode = "earnings" THEN p.epsGrowthRate ELSE p.fcfGrowthRate
Multiple(p) == IF p.projectionMode = "earnings" THEN p.peMultiple ELSE p.pfcfMultiple

\* projectedFinalValue * multiple
FinalPrice(perShareValue, growthRate, multiple) ==
    RatTimes(RatTimes(FromInt(perShareValue),
                      RatPower(GrowthFactor(growthRate), projectionYears)),
             FromInt(multiple))

\* the projection effect on the component state p: nothing without a
\* per-share value (null and 0 alike) or without a positive price, else the
\* six points
CalculateProjection(p) ==
    IF PerShareValue(p) = 0 \/ p.currentPrice <= 0 THEN p
    ELSE LET finalPrice == FinalPrice(PerShareValue(p), GrowthRate(p), Multiple(p))
         IN  [p EXCEPT
                !.calculated = TRUE,
                !.inputs = [projectionMode |-> p.projectionMode,
                            perShareValue |-> PerShareValue(p),
                            growthRate |-> GrowthRate(p),
                            multiple |-> Multiple(p),
                            currentPrice |-> p.currentPrice],
                !.finalPrice = finalPrice,
                !.projectionData =
                    [j \in 1..(projectionYears + 1) |->
                        [year |-> p.currentYear + (j - 1),
                         price |-> IF j = 1 THEN FromInt(p.currentPrice)
                                   ELSE ProjectedPrice(p.currentPrice, finalPrice, j - 1),
                         perShare |-> RatTimes(FromInt(PerShareValue(p)),
                                               RatPower(GrowthFactor(GrowthRate(p)), j - 1))]]]

\* the component mounts: no per-share values yet, the defaults, the price of
\* the stock, this year
MountProjection ==
    /\ DOMAIN projection = {"calculated"}
    /\ \E currentPrice \in {0, 100}, currentYear \in {2026} :
          projection' = CalculateProjection(
             [calculated |-> FALSE,
              projectionMode |-> "earnings",
              ttmEPS |-> 0, epsGrowthRate |-> DefaultGrowthRate, peMultiple |-> DefaultMultiple,
              ttmFCFPerShare |-> 0, fcfGrowthRate |-> DefaultGrowthRate,
              pfcfMultiple |-> DefaultMultiple,
              currentPrice |-> currentPrice, currentYear |-> currentYear,
              inputs |-> <<>>, finalPrice |-> Zero, projectionData |-> <<>>])
    /\ UNCHANGED <<dataVars, cagrVars, cacheVars, compareVars, policy, clientVars>>

\* a per-share value arrives from the earnings or cash-flow data, or the user
\* types a number into one of the fields; the effect runs
handleInputChange ==
    /\ DOMAIN projection # {"calculated"}
    /\ \/ \E v \in {-2, 0, 2} :
             projection' = CalculateProjection([projection EXCEPT !.ttmEPS = v])
       \/ \E v \in {-100, 0, DefaultGrowthRate, 100} :
             projection' = CalculateProjection([projection EXCEPT !.epsGrowthRate = v])
       \/ \E v \in {0, 10, DefaultMultiple} :
             projection' = CalculateProjection([projection EXCEPT !.peMultiple = v])
       \/ \E v \in {0, 3} :
             projection' = CalculateProjection([projection EXCEPT !.ttmFCFPerShare = v])
    /\ UNCHANGED <<dataVars, cagrVars, cacheVars, compareVars, policy, clientVars>>

\* the user switches between the earnings and the cash-flow projection
setProjectionMode ==
    /\ DOMAIN projection # {"calculated"}
    /\ \E mode \in {"earnings", "fcf"} :
          projection' = CalculateProjection([projection EXCEPT !.projectionMode = mode])
    /\ UNCHANGED <<dataVars, cagrVars, cacheVars, compareVars, policy, clientVars>>

ProjectionNext == MountProjection \/ handleInputChange \/ setProjectionMode

\* the projection panel: inputs change one at a time, the effect follows
SpecProjection == NormInit /\ [][ProjectionNext]_vars

\* point i of the geometric progression from currentPrice to finalPrice in 5
\* steps: currentPrice * (finalPrice / currentPrice)^(i/5), the fifth root being
\* negative when the ratio is
GeometricPoint(currentPrice, finalPrice, i) ==
    LET ratio == Rat(finalPrice.n, finalPrice.d * currentPrice)
    IN  IF ratio.n = 0 THEN Zero
        ELSE IF i = projectionYears THEN finalPrice
        ELSE IF ratio.n > 0 THEN RootPower(1, currentPrice, ratio, i)
        ELSE RootPower(IF i % 2 = 0 THEN 1 ELSE -1, currentPrice, Rat(-ratio.n, ratio.d), i)

\* C18: a projection has 6 points labelled currentYear .. currentYear + 5;
\* point 0 holds currentPrice and the per-share input; point i holds the
\* per-share input * (1 + growthRate/100)^i; the prices are a geometric
\* progression ending at finalPrice = per-share * (1 + growthRate/100)^5 * multiple
C18_ProjectionIsGeometric ==
    (DOMAIN projection # {"calculated"} /\ projection.calculated) =>
       LET in == projection.inputs
           points == projection.projectionData
           finalPrice == RatTimes(RatTimes(FromInt(in.perShareValue),
                                           RatPower(GrowthFactor(in.growthRate), 5)),
                                  FromInt(in.multiple))
       IN  /\ Len(points) = 6
           /\ \A j \in 1..6 : points[j].year = projection.currentYear + (j - 1)
           /\ points[1].price = FromInt(in.currentPrice)
           /\ \A j \in 1..6 :
                 points[j].perShare = RatTimes(FromInt(in.perShareValue),
                                               RatPower(GrowthFactor(in.growthRate), j - 1))
           /\ \A j \in 2..6 :
                 points[j].price = GeometricPoint(in.currentPrice, finalPrice, j - 1)

-----------------------------------------------------------------------------
(* calculateCAGR on long quarterly series: the two windows *)

MaxWindowQuarters == 44  \* longest quarterly series of the window runs

WindowInit ==
    /\ data = <<>>
    /\ isQuarterlyData = TRUE
    /\ cagr = NoCall
    /\ DataIdle

\* the quarterly series gains its next point: the values rise or fall by 1
\* a quarter, so that no two windows of 4 quarters have the same sum
AppendQuarter ==
    /\ Len(data) < MaxWindowQuarters
    /\ \E sign \in {-1, 1} :
          /\ data # <<>> => sign * data[1] > 0
          /\ data' = Append(data, sign * (Len(data) + 1))
    /\ cagr' = NoCall
    /\ UNCHANGED <<isQuarterlyData, dataVars, restVars>>

\* calculateCAGR(data, years, true), with the two sums it forms when it gets
\* that far
CalculateQuarterlyCAGR ==
    /\ \E years \in CagrYears :
          LET summed == Len(data) >= years + 1
                        /\ Len(data) >= (IF years = 1 THEN 4 ELSE years * 4) + 4
          IN  cagr' = [years |-> years,
                       value |-> calculateCAGR(data, years, isQuarterlyData),
                       summed |-> summed,
                       endTTM |-> IF summed THEN EndTTM(data) ELSE 0,
                       startTTM |-> IF summed THEN StartTTM(data, years) ELSE 0]
    /\ UNCHANGED <<data, isQuarterlyData, dataVars, restVars>>

WindowNext == AppendQuarter \/ CalculateQuarterlyCAGR

\* quarterly series of up to 11 years through calculateCAGR
SpecWindow == WindowInit /\ [][WindowNext]_vars

\* C19: calculateCAGR(series, years, true) is 0 with fewer than years*4 + 4
\* quarters; otherwise the end window is the last 4 quarters, the start window
\* the 4 quarters at JavaScript indices len-(years*4+4) .. len-(years*4+1),
\* both inside the series, and the result is the policy on the two sums
C19_QuarterlyWindows ==
    cagr.years # 0 =>
       LET len == Len(data)
           years == cagr.years
           first == len - (years * 4 + 4) + 1      \* model position of the JavaScript index
           last == len - (years * 4 + 1) + 1
       IN  IF len < years * 4 + 4
           THEN cagr.value = Zero /\ ~cagr.summed
           ELSE /\ cagr.summed
                /\ first >= 1 /\ last <= len /\ len - 3 >= 1
                /\ cagr.endTTM = data[len - 3] + data[len - 2] + data[len - 1] + data[len]
                /\ cagr.startTTM = data[first] + data[first + 1] + data[first + 2] + data[last]
                /\ last = first + 3
                /\ cagr.value = QuarterlyPolicy(cagr.startTTM, cagr.endTTM, years)

\* C19 witness: a 10-year rate over a series of exactly 44 quarters
C19_Witness ==
    /\ cagr.years = 10
    /\ Len(data) = 44
    /\ cagr.summed
    /\ cagr.startTTM = 10
    /\ cagr.endTTM = 170

-----------------------------------------------------------------------------
(* calculateCAGR: the sign-transition policy of the two branches *)

MaxPolicyValue == 3      \* largest magnitude of the start and end values

\* the case the quarterly branch selects, its tests in their order
QuarterlyCase(startTTM, endTTM) ==
    IF startTTM < 0 /\ endTTM > 0 THEN "negative-to-positive"
    ELSE IF startTTM = 0 THEN "start-zero"
    ELSE IF startTTM < 0 /\ endTTM < 0
    THEN IF Abs(endTTM) < Abs(startTTM) THEN "both-negative-shrinking"
         ELSE "both-negative-growing"
    ELSE "standard"

\* the case the annual branch selects, its tests in their order
AnnualCase(startValue, endValue) ==
    IF startValue < 0 /\ endValue > 0 THEN "negative-to-positive"
    ELSE IF startValue < 0 /\ endValue < 0
    THEN IF Abs(endValue) < Abs(startValue) THEN "both-negative-shrinking"
         ELSE "both-negative-growing"
    ELSE IF startValue = 0 THEN "start-zero"
    ELSE "standard"

\* both branches meet the same two numbers and the same period
ApplyPolicy ==
    /\ \E start \in -MaxPolicyValue..MaxPolicyValue, end \in -MaxPolicyValue..MaxPolicyValue,
          years \in CagrYears :
          policy' = [applied |-> TRUE, start |-> start, end |-> end, years |-> years,
                     annual |-> [case |-> AnnualCase(start, end),
                                 value |-> AnnualPolicy(start, end, years)],
                     quarterly |-> [case |-> QuarterlyCase(start, end),
                                    value |-> QuarterlyPolicy(start, end, years)]]
    /\ UNCHANGED <<dataVars, cagrVars, cacheVars, compareVars, projection, clientVars>>

PolicyNext == ApplyPolicy

\* every pair of small start and end values through both branches
SpecPolicy == NormInit /\ [][PolicyNext]_vars

\* C20: on the same start, end and years the annual and the quarterly branch
\* select the same case and return the same result
C20_SamePolicyInBothModes ==
    policy.applied =>
       /\ policy.annual.case = policy.quarterly.case
       /\ policy.annual.value = policy.quarterly.value

\* C20 witness: a start of 0 with a negative end, where the order of the tests
\* differs, gives 0 in both branches
C20_Witness ==
    /\ policy.applied
    /\ policy.start = 0
    /\ policy.end < 0
    /\ policy.years = 5
    /\ policy.annual = [case |-> "start-zero", value |-> Zero]
    /\ policy.quarterly = [case |-> "start-zero", value |-> Zero]

-----------------------------------------------------------------------------
(* GET /api/financial/:symbol: requests that overlap at their awaits *)

MaxOverlap == 2          \* requests suspended at an await at once

\* a request that missed the cache, about to await the read of the year node
Suspended ==
    [stage |-> "year", yearData |-> <<>>, quarterData |-> <<>>, dividendsData |-> <<>>,
     result |-> NullData]

\* the requests without the one at position i
OtherRequests(i) ==
    SubSeq(pending.requests, 1, i - 1) \o SubSeq(pending.requests, i + 1, Len(pending.requests))

\* the route up to its first await: cache.get in the route and again in
\* getFinancialData; a hit answers at once, a miss suspends at get(yearRef)
BeginFinancialRequest ==
    /\ Len(pending.requests) < MaxOverlap
    /\ IF CacheHit(store, "financial_data", clock.now)
       THEN /\ response' = Cached("financial", store, "financial_data")
            /\ UNCHANGED <<store, pending>>
       ELSE /\ pending' = [pending EXCEPT !.requests = Append(@, Suspended)]
            /\ store' = CacheGetStore(store, "financial_data", clock.now)
            /\ UNCHANGED response
    /\ UNCHANGED <<clock, dataVars, cagrVars, compareVars, projection, policy,
                   symbol, ttmData, chart>>

\* one await of getFinancialData resolves: the year node, the quarter node,
\* then the dividends node followed by processFinancialData and cache.set when
\* there are years or quarters
AwaitResolved ==
    /\ \E i \in 1..Len(pending.requests) :
          LET r == pending.requests[i]
          IN  \/ /\ r.stage = "year"
                 /\ pending' = [pending EXCEPT !.requests[i] =
                                   [r EXCEPT !.stage = "quarter", !.yearData = yearData]]
                 /\ UNCHANGED store
              \/ /\ r.stage = "quarter"
                 /\ pending' = [pending EXCEPT !.requests[i] =
                                   [r EXCEPT !.stage = "dividends", !.quarterData = quarterData]]
                 /\ UNCHANGED store
              \/ /\ r.stage = "dividends"
                 /\ IF r.yearData # <<>> \/ r.quarterData # <<>>
                    THEN \E sy \in SortOutcomes(r.yearData), sq \in SortOutcomes(r.quarterData),
                            sd \in DividendSortOutcomes(dividendsData) :
                            LET fd == processFinancialData(sy, sq, sd)
                            IN  /\ pending' =
                                      [requests |-> [pending.requests EXCEPT ![i] =
                                                        [r EXCEPT !.stage = "respond",
                                                                  !.dividendsData = dividendsData,
                                                                  !.result = fd]],
                                       runs |-> pending.runs + 1]
                                /\ store' = CacheSet(store, "financial_data", fd, 0, clock.now)
                    ELSE /\ pending' = [pending EXCEPT !.requests[i] =
                                           [r EXCEPT !.stage = "respond",
                                                     !.dividendsData = dividendsData]]
                         /\ UNCHANGED store
    /\ UNCHANGED <<clock, response, dataVars, cagrVars, compareVars, projection, policy,
                   symbol, ttmData, chart>>

\* the route resumes after getFinancialData: cache.set and 200, or 404
RouteResponds ==
    /\ \E i \in 1..Len(pending.requests) :
          LET r == pending.requests[i]
          IN  /\ r.stage = "respond"
              /\ pending' = [pending EXCEPT !.requests = OtherRequests(i)]
              /\ IF r.result.found
                 THEN /\ store' = CacheSet(store, "financial_data", r.result, 0, clock.now)
                      /\ response' = Built("financial", 200, r.result, TRUE, "ok", FALSE)
                 ELSE /\ UNCHANGED store
                      /\ response' = Built("financial", 404, NullData, TRUE, "ok", FALSE)
    /\ UNCHANGED <<clock, dataVars, cagrVars, compareVars, projection, policy,
                   symbol, ttmData, chart>>

OverlapNext == LoadSymbol \/ BeginFinancialRequest \/ AwaitResolved \/ RouteResponds

\* requests for one symbol that interleave at their awaits; time stands still
\* and nothing is purged
SpecOverlap == NormInit /\ [][OverlapNext]_vars

\* C21: with no expiry and no purge, processFinancialData runs at most once
\* for the symbol, however the requests overlap
C21_BuiltOnce == pending.runs <= 1

-----------------------------------------------------------------------------
(* useStockData: the ttm series of the financialData memo *)

RatPlus(a, b) == Rat(a.n * b.d + b.n * a.d, a.d * b.d)

\* the four values quarterlyData[i-3..i] of a series of rationals, added
SumOfFour(values, i) ==
    RatPlus(RatPlus(RatPlus(values[i], values[i - 1]), values[i - 2]), values[i - 3])

\* the .ttm of one metric: nothing unless the series has more than 3 points,
\* else one point per position from the fourth on (JavaScript i >= 3), with
\* the label of that quarter; `values` are the values of the series as rationals
TtmSeries(series, values, kind) ==
    IF Len(series) > 3
    THEN [j \in 1..(Len(series) - 3) |->
            LET i == j + 3
            IN  Point(series[i].year,
                      CASE kind = "sum" -> SumOfFour(values, i)
                        [] kind = "latest" -> values[i]
                        [] kind = "average" ->
                              Rat(SumOfFour(values, i).n, SumOfFour(values, i).d * 4))]
    ELSE <<>>

IntValues(series) == [i \in 1..Len(series) |-> Rat(series[i].value, 1)]
RatValues(series) == [i \in 1..Len(series) |-> series[i].value]

\* the financialData memo: sumMetrics, latestValueMetrics, averageMetrics
\* (operatingCashFlow and dividends are in none of the lists and get no ttm)
financialDataMemo(quarterly) ==
    [made |-> TRUE,
     revenue |-> TtmSeries(quarterly.revenue, IntValues(quarterly.revenue), "sum"),
     netIncome |-> TtmSeries(quarterly.netIncome, IntValues(quarterly.netIncome), "sum"),
     sbc |-> TtmSeries(quarterly.sbc, RatValues(quarterly.sbc), "sum"),
     fcf |-> TtmSeries(quarterly.fcf, IntValues(quarterly.fcf), "sum"),
     capex |-> TtmSeries(quarterly.capex, IntValues(quarterly.capex), "sum"),
     payoutRatio |-> TtmSeries(quarterly.payoutRatio, RatValues(quarterly.payoutRatio), "sum"),
     cash |-> TtmSeries(quarterly.cash, IntValues(quarterly.cash), "latest"),
     debt |-> TtmSeries(quarterly.debt, IntValues(quarterly.debt), "latest"),
     shares |-> TtmSeries(quarterly.shares, IntValues(quarterly.shares), "latest"),
     grossMargin |-> TtmSeries(quarterly.grossMargin, RatValues(quarterly.grossMargin), "average"),
     netMargin |-> TtmSeries(quarterly.netMargin, RatValues(quarterly.netMargin), "average")]

\* the hook receives the response of /api/financial and the memo runs
UseFinancialData ==
    /\ pc = "served"
    /\ financialData.found
    /\ ttmData' = financialDataMemo(financialData.quarterly)
    /\ UNCHANGED <<dataVars, cagrVars, cacheVars, compareVars, projection, policy,
                   symbol, pending, chart>>

TtmNext == PutPayoutQuarter \/ GetFinancialData \/ UseFinancialData

\* consecutive quarters through getFinancialData and the memo of the hook
SpecTtm == NormInit /\ [][TtmNext]_vars

\* the rule of the rollup for one metric: one point per quarter from the
\* fourth on, labelled with it, holding the sum, the average or the latest value
RolledUp(ttm, series, values, kind) ==
    /\ Len(ttm) = (IF Len(series) >= 4 THEN Len(series) - 3 ELSE 0)
    /\ \A j \in 1..Len(ttm) :
          LET i == j + 3
              sum == SumOfFour(values, i)
          IN  /\ ttm[j].year = series[i].year
              /\ ttm[j].value = (CASE kind = "sum" -> sum
                                   [] kind = "latest" -> values[i]
                                   [] kind = "average" -> Rat(sum.n, sum.d * 4))

\* the rollup of the flows and of the point-in-time metrics is as the rule says
FlowsAndLevelsRolledUp ==
    LET q == financialData.quarterly
    IN  /\ RolledUp(ttmData.revenue, q.revenue, IntValues(q.revenue), "sum")
        /\ RolledUp(ttmData.netIncome, q.netIncome, IntValues(q.netIncome), "sum")
        /\ RolledUp(ttmData.sbc, q.sbc, RatValues(q.sbc), "sum")
        /\ RolledUp(ttmData.fcf, q.fcf, IntValues(q.fcf), "sum")
        /\ RolledUp(ttmData.capex, q.capex, IntValues(q.capex), "sum")
        /\ RolledUp(ttmData.cash, q.cash, IntValues(q.cash), "latest")
        /\ RolledUp(ttmData.debt, q.debt, IntValues(q.debt), "latest")
        /\ RolledUp(ttmData.shares, q.shares, IntValues(q.shares), "latest")

\* C22: the ttm series have one point per quarter index >= 3, labelled with
\* that quarter; a flow holds the sum of its 4 quarters, gross margin, net
\* margin and payout ratio their average, cash, debt and shares the value of
\* the quarter
C22_TtmRollup ==
    ttmData.made =>
       LET q == financialData.quarterly
       IN  /\ FlowsAndLevelsRolledUp
           /\ RolledUp(ttmData.grossMargin, q.grossMargin, RatValues(q.grossMargin), "average")
           /\ RolledUp(ttmData.netMargin, q.netMargin, RatValues(q.netMargin), "average")
           /\ RolledUp(ttmData.payoutRatio, q.payoutRatio, RatValues(q.payoutRatio), "average")

-----------------------------------------------------------------------------
(* /api/valuation: the order and the sign of what it returns *)

MaxSharesQuarters == 4   \* consecutive quarters of the runs with missing share counts

\* the loader writes the record of the next quarter; its share count is there
\* or missing (Number(undefined || 0) = 0)
PutSharesQuarter ==
    /\ pc = "load"
    /\ Len(quarterData) < MaxSharesQuarters
    /\ \E commonStockSharesOutstanding \in {0, 10} :
          quarterData' =
             Append(quarterData,
                    [Record(QuarterEnd(Len(quarterData) + 1), 100,
                            QuarterIncome(Len(quarterData) + 1), 1)
                        EXCEPT !.commonStockSharesOutstanding = commonStockSharesOutstanding])
    /\ UNCHANGED <<yearData, dividendsData, pc, financialData, valuation, cagrVars, restVars>>

SharesNext == PutSharesQuarter \/ GetFinancialData \/ GetValuation

\* consecutive quarters, some without a share count, then the valuation
SpecShares == NormInit /\ [][SharesNext]_vars

\* C29: every ratio of a point with price > 0 that is not null is strictly
\* positive
C29_RatiosPositive ==
    valuation.status = "ok" =>
       \A i \in 1..Len(valuation.metrics) :
          LET point == valuation.metrics[i]
          IN  point.price > 0 =>
                 /\ point.pe # NullRatio => IsPositive(point.pe)
                 /\ point.ps # NullRatio => IsPositive(point.ps)
                 /\ point.pfcf # NullRatio => IsPositive(point.pfcf)
                 /\ point.pocf # NullRatio => IsPositive(point.pocf)

-----------------------------------------------------------------------------
(* The alignment of the series of one frequency *)

AlignNext == PutYearRecord \/ PutOddQuarter \/ GetFinancialData

\* annual and quarterly records of any encoding, then getFinancialData
SpecAlign == NormInit /\ [][AlignNext]_vars

\* the period labels of a series, in order
PeriodLabels(series) == [i \in 1..Len(series) |-> series[i].year]

\* every series of one frequency has the labels of its revenue series
Aligned(frequency) ==
    /\ PeriodLabels(frequency.netIncome) = PeriodLabels(frequency.revenue)
    /\ PeriodLabels(frequency.cash) = PeriodLabels(frequency.revenue)
    /\ PeriodLabels(frequency.debt) = PeriodLabels(frequency.revenue)
    /\ PeriodLabels(frequency.shares) = PeriodLabels(frequency.revenue)
    /\ PeriodLabels(frequency.grossMargin) = PeriodLabels(frequency.revenue)
    /\ PeriodLabels(frequency.netMargin) = PeriodLabels(frequency.revenue)
    /\ PeriodLabels(frequency.fcf) = PeriodLabels(frequency.revenue)
    /\ PeriodLabels(frequency.capex) = PeriodLabels(frequency.revenue)
    /\ PeriodLabels(frequency.operatingCashFlow) = PeriodLabels(frequency.revenue)
    /\ PeriodLabels(frequency.payoutRatio) = PeriodLabels(frequency.revenue)

\* C25: all series of one frequency have the same length and the same period
\* label at every index, also when records were dropped for their date
C25_SeriesAligned ==
    financialData.found =>
       /\ Aligned(financialData.annual)
       /\ Aligned(financialData.quarterly)

\* C25 witness: a data set is served in which a quarterly record without a date
\* was dropped, another one was kept, and there are annual points
C25_Witness ==
    /\ pc = "served"
    /\ financialData.found
    /\ \E i \in 1..Len(quarterData) : quarterData[i].endDate = MissingDate
    /\ Len(financialData.quarterly.revenue) >= 1
    /\ Len(financialData.quarterly.revenue) < Len(quarterData)
    /\ Len(financialData.annual.revenue) >= 1

-----------------------------------------------------------------------------
(* The projection effect: its guard and what it leaves alone *)

\* the guard of the effect fails on the component state p
GuardFails(p) == PerShareValue(p) = 0 \/ p.currentPrice <= 0

\* every number of the points of a projection is finite
FinitePoints(points) ==
    \A j \in 1..Len(points) : IsFinite(points[j].price) /\ IsFinite(points[j].perShare)

\* C24: the projection is computed only when currentPrice > 0 and the
\* per-share value of the mode in use is present; a run of the effect whose
\* guard fails leaves the projection as it was; and every projection that is
\* computed contains only finite numbers
C24_GuardedAndFinite ==
    /\ []((DOMAIN projection # {"calculated"} /\ projection.calculated)
             => FinitePoints(projection.projectionData))
    /\ [][(DOMAIN projection # {"calculated"} /\ GuardFails(projection'))
             => /\ projection'.projectionData = projection.projectionData
                /\ projection'.finalPrice = projection.finalPrice
                /\ projection'.calculated = projection.calculated]_vars

-----------------------------------------------------------------------------
(* The comparison list and the primary symbol *)

\* the symbols typed into the search bar
SearchedSymbols == {"AAPL", "MSFT"}

\* the search bar hands over a symbol: setSymbol when it differs
handleSearch ==
    /\ \E newSymbol \in SearchedSymbols :
          /\ newSymbol # symbol
          /\ symbol' = newSymbol
    /\ UNCHANGED <<dataVars, cagrVars, cacheVars, compareVars, projection, policy,
                   pending, ttmData, chart>>

SymbolNext ==
    \/ handleSearch
    \/ addComparisonStock
    \/ AddResolved
    \/ removeComparisonStock
    \/ toggleComparisonStock

\* the compare dialog and the search bar used in any order
SpecSymbol == NormInit /\ [][SymbolNext]_vars

\* C26: the comparison list holds no symbol twice and never the primary symbol
C26_ListDistinctFromPrimary ==
    /\ \A j, k \in 1..Len(comparisonStocks) :
          j # k => comparisonStocks[j].symbol # comparisonStocks[k].symbol
    /\ \A k \in 1..Len(comparisonStocks) : comparisonStocks[k].symbol # symbol

\* C27: the stocks of the comparison list have pairwise distinct colours
C27_ColoursDistinct ==
    \A j, k \in 1..Len(comparisonStocks) :
       j # k => comparisonStocks[j].color # comparisonStocks[k].color

-----------------------------------------------------------------------------
(* calculateCAGR: what it returns is a number *)

\* C28: for every series and every horizon of 1, 3, 5 and 10 years the value
\* calculateCAGR returns is a finite number
C28_CagrIsFinite == cagr # NoCall => IsFinite(cagr.value)

-----------------------------------------------------------------------------
(* ValuationMetricsChart: the fetch effect.  chart.valuationData is the set  *)
(* of keys of the valuationData object, chart.fetches the key sets of the   *)
(* Promise.all calls in flight, chart.deps the dependencies the effect last *)
(* ran for (<<>> before its first run).                                     *)

MaxChartFetches == 4     \* fetchValuationData calls in flight at once

\* [symbol, ...comparisonStocks.filter(stock => stock.isActive).map(...)]
AllSymbols(primary, stocks) ==
    {primary} \cup {stocks[k].symbol : k \in {j \in 1..Len(stocks) : stocks[j].isActive}}

\* the effect runs after a render whose symbol or comparison list changed:
\* fetchValuationData up to its await
fetchValuationData ==
    /\ chart.deps # <<symbol, comparisonStocks>>
    /\ Len(chart.fetches) < MaxChartFetches
    /\ chart' = [chart EXCEPT !.deps = <<symbol, comparisonStocks>>,
                              !.fetches = Append(@, AllSymbols(symbol, comparisonStocks))]
    /\ UNCHANGED <<dataVars, cagrVars, cacheVars, compareVars, projection, policy,
                   symbol, pending, ttmData>>

\* the Promise.all of one call resolves: setValuationData(dataMap)
ValuationFetched ==
    /\ \E i \in 1..Len(chart.fetches) :
          chart' = [chart EXCEPT !.valuationData = chart.fetches[i],
                                 !.fetches = Without(@, i)]
    /\ UNCHANGED <<dataVars, cagrVars, cacheVars, compareVars, projection, policy,
                   symbol, pending, ttmData>>

ChartNext == handleSearch \/ fetchValuationData \/ ValuationFetched

\* the valuation chart while the user searches for other symbols
SpecChart == NormInit /\ [][ChartNext]_vars

\* C30: once the effect has run for the current symbol and no fetch is in
\* flight, valuationData holds the result for the current primary symbol
C30_CurrentSymbolShown ==
    (chart.deps = <<symbol, comparisonStocks>> /\ chart.fetches = <<>>)
       => symbol \in chart.valuationData

=============================================================================
